---------------------------- MODULE Spec2Model ----------------------------
(***************************************************************************)
(* A model of utils.py of the Canonical-Correlation-Analysis repository:   *)
(* k-fold splitting, block shuffling, cano_corr (two-set CCA, train and    *)
(* test mode), GCCA (test mode and its weight rescaling), the cross-       *)
(* validation loops and rho_sweep.                                         *)
(*                                                                         *)
(* Numbers are exact: signals hold integers, a Pearson correlation is kept *)
(* as a sign and the reduced fraction of its square, a rescaled weight as  *)
(* w / sqrt(p/q).  numpy arrays that the code aliases or writes in place   *)
(* are objects of a heap (buffer, shape, strides), so that a view and a    *)
(* copy are different things.  Eigenvectors are irrational in general: an  *)
(* eigensolver returns any matrix of non-zero columns of a bounded set, a  *)
(* superset of what LAPACK can return.                                     *)
(***************************************************************************)
EXTENDS Integers, Sequences, FiniteSets, TLC

----------------------------------------------------------------------------
(* Bounds of the model.                                                    *)

\* longest signal handed to split
MaxT == 21

\* longest signal handed to shuffle_block
MaxTShuffle == 6

\* most blocks shuffle_block cuts a signal into (each subject's order is one of MaxBlocks! permutations)
MaxBlocks == 4

\* largest n_components asked of cano_corr (the data have at most 2 channels and 2 taps)
MaxComp == 3

\* longest recording handed to the cross-validation (at least two samples per test fold)
MaxCvT == 7

----------------------------------------------------------------------------
(* Generic helpers: Python / numpy primitives used by the code.            *)

None == "None"

Min(a, b) == IF a <= b THEN a ELSE b

Max(a, b) == IF a >= b THEN a ELSE b

SeqRange(s) == {s[i] : i \in 1..Len(s)}

\* a[lo:hi] on axis 0 (0-based, hi exclusive, clamped to the length as Python does)
Slice(s, lo, hi) ==
    IF hi <= lo THEN <<>> ELSE SubSeq(s, Min(lo, Len(s)) + 1, Min(hi, Len(s)))

\* np.delete(a, range(lo, hi), axis=0): the rows outside [lo, hi), in order
NpDelete(s, lo, hi) ==
    IF hi <= lo THEN s ELSE SubSeq(s, 1, lo) \o SubSeq(s, hi + 1, Len(s))


\* sum of a sequence of integers
RECURSIVE SumSeq(_)
SumSeq(s) == IF Len(s) = 0 THEN 0 ELSE s[1] + SumSeq(Tail(s))

Abs(a) == IF a < 0 THEN -a ELSE a

Sign(a) == IF a < 0 THEN -1 ELSE IF a > 0 THEN 1 ELSE 0

RECURSIVE GCD(_, _)
GCD(a, b) == IF b = 0 THEN a ELSE GCD(b, a % b)

\* matrices are sequences of rows
NCols(M) == IF Len(M) = 0 THEN 0 ELSE Len(M[1])

Col(M, k) == [i \in 1..Len(M) |-> M[i][k]]

\* A @ B
MatMul(A, B) ==
    [i \in 1..Len(A) |-> [k \in 1..NCols(B) |->
        SumSeq([d \in 1..Len(B) |-> A[i][d] * B[d][k]])]]

\* M[:, :n]: a slice past the last column stops at the last column, silently
ColsUpTo(M, n) == [i \in 1..Len(M) |-> SubSeq(M[i], 1, Min(n, Len(M[i])))]

\* the matrix whose columns are the vectors of cols
FromCols(cols, D) == [d \in 1..D |-> [k \in 1..Len(cols) |-> cols[k][d]]]

----------------------------------------------------------------------------
(* numpy arrays: an array is a buffer of the heap seen through a shape and *)
(* strides (in elements); a view shares its base's buffer, a copy does not. *)

NoneArr == [buf |-> 0, shape |-> <<>>, strides |-> <<>>]

IsNone(a) == a.buf = 0

\* strides of a freshly allocated (C-contiguous) array
CStrides(shape) ==
    [i \in 1..Len(shape) |->
        IF i = Len(shape) THEN 1
        ELSE IF i = Len(shape) - 1 THEN shape[Len(shape)]
        ELSE shape[Len(shape)] * shape[Len(shape) - 1]]

\* a 2-D array as a matrix
Mat(h, a) ==
    [i \in 1..a.shape[1] |-> [j \in 1..a.shape[2] |->
        h[a.buf][1 + (i - 1) * a.strides[1] + (j - 1) * a.strides[2]]]]

\* the C-order contents of a matrix
Flat(M) == [e \in 1..(Len(M) * NCols(M)) |-> M[((e - 1) \div NCols(M)) + 1][((e - 1) % NCols(M)) + 1]]

\* the descriptor of a new C-contiguous array in buffer b
CArr(b, shape) == [buf |-> b, shape |-> shape, strides |-> CStrides(shape)]

\* a[i, j] = v for all (i, j): write matrix M through the 2-D array a
WriteMat(h, a, M) ==
    [h EXCEPT ![a.buf] =
        [e \in 1..Len(h[a.buf]) |->
            IF \E i \in 1..a.shape[1], j \in 1..a.shape[2] :
                   e = 1 + (i - 1) * a.strides[1] + (j - 1) * a.strides[2]
            THEN LET ij == CHOOSE ij \in (1..a.shape[1]) \X (1..a.shape[2]) :
                               e = 1 + (ij[1] - 1) * a.strides[1] + (ij[2] - 1) * a.strides[2]
                 IN  M[ij[1]][ij[2]]
            ELSE h[a.buf][e]]]

----------------------------------------------------------------------------
(* scipy.stats.pearsonr, exactly: r = num / sqrt(dx * dy) is kept as its   *)
(* sign and the reduced fraction of r^2; a constant input gives NaN.       *)

NaN == [sgn |-> 0, num |-> 0, den |-> 0]

IsNaN(r) == r.den = 0

PearsonR(x, y) ==
    LET n   == Len(x)
        sx  == SumSeq(x)
        sy  == SumSeq(y)
        num == n * SumSeq([i \in 1..n |-> x[i] * y[i]]) - sx * sy
        dx  == n * SumSeq([i \in 1..n |-> x[i] * x[i]]) - sx * sx
        dy  == n * SumSeq([i \in 1..n |-> y[i] * y[i]]) - sy * sy
        g   == GCD(num * num, dx * dy)
    IN  IF dx = 0 \/ dy = 0 THEN NaN
        ELSE [sgn |-> Sign(num), num |-> (num * num) \div g, den |-> (dx * dy) \div g]

\* the two-sided p-value is a function of |r| and the sample count only
PValue(r, n) == IF IsNaN(r) THEN NaN ELSE [sgn |-> 1, num |-> r.num, den |-> r.den, n |-> n]

\* r < 0 (False for NaN)
IsNeg(r) == r.sgn < 0

\* r >= 0 (False for NaN)
IsNonNeg(r) == ~IsNaN(r) /\ r.sgn >= 0

\* -1 * r
NegCorr(r) == [r EXCEPT !.sgn = -r.sgn]

----------------------------------------------------------------------------
(* State.                                                                  *)

VARIABLES
    op,        \* which entry point of utils.py the caller is running
    pc,        \* where that call stands: "start", "loop", "done" or "raised"
    EEG,       \* split / cross_val_CCA: the EEG array, [ndim, rows]
    Sti,       \* split / cross_val_CCA: the stimulus (feature), one value per sample
    fold,      \* number of folds
    idx,       \* the fold loop's index: iterations completed so far
    splits,    \* what split returned in each iteration, in call order
    X,         \* shuffle_block: the T x D x N array; cano_corr: the T x D EEG
    t,         \* shuffle_block: block duration in seconds, a fraction [num, den]
    fs,        \* shuffle_block: sampling rate
    X_shuffled, \* shuffle_block: the returned array, empty before the call
    Y,         \* cano_corr: the T x L stimulus matrix
    n_components, \* cano_corr: number of components asked for
    V_A,       \* cano_corr: the caller's V_A argument, an array of the heap or NoneArr
    V_B,       \* cano_corr: the caller's V_B argument
    heap,      \* the buffers of the numpy arrays that are aliased or written in place
    frame,     \* cano_corr: the locals of the last call (flag_test, filters and correlations before line 208)
    ret,       \* cano_corr: what the last call returned, or the exception it raised
    train_ret, \* cano_corr: the caller's copy of what the train call returned
    L_timefilter, \* cross-validation: length of the stimulus filter
    signifi_level, \* cross-validation: whether the permutation test runs after the loop
    corr_train, \* cross-validation: fold x n_components array of training correlations
    corr_test, \* cross-validation: fold x n_components array of held-out correlations
    V_A_train, \* cross_val_CCA: the filters of the last fit (arrays of the heap)
    V_B_train,
    iters,     \* cross-validation: the locals of each completed iteration, in order
    cv_ret,    \* cross-validation: the returned tuple, or the exception raised
    datalist,  \* cross_val_GCCA_multi_mod: the modalities, each [ndim, rows]
    rhos,      \* cross_val_GCCA_multi_mod: the weights of the modalities
    Wlist_train, \* cross_val_GCCA_multi_mod: the weights of the last fit
    sweep_list, \* rho_sweep: the exponents to try
    sweep_pos, \* rho_sweep: how many of them the loop has taken
    corr_best, \* rho_sweep: the best score so far
    rhos_best, \* rho_sweep: the rhos of the best score, unbound before the first assignment
    sweep_scores, \* rho_sweep: the [rhos, score] of each sweep value compared so far
    W_train,   \* GCCA: the caller's W_train argument, a D x N x K array of the heap or NoneArr
    regularization, \* GCCA: the covariance estimator asked for
    W_before,  \* GCCA: the values of W_train when the test-mode call was made
    gcca_ret,  \* GCCA: what the last call returned, or the exception it raised
    args,      \* a call of a function without side effects: its arguments, a record
    out        \* that call's result, or the exception it raised

splitVars == <<EEG, Sti, fold, idx, splits>>

pureVars == <<args, out>>

shuffleVars == <<t, X_shuffled, pureVars>>

gccaVars == <<W_train, regularization, W_before, gcca_ret>>

canoVars == <<Y, V_A, V_B, frame, ret, train_ret, gccaVars>>

mmVars == <<datalist, rhos, Wlist_train>>

sweepVars == <<sweep_list, sweep_pos, corr_best, rhos_best, sweep_scores>>

cvVars == <<L_timefilter, signifi_level, corr_train, corr_test, V_A_train, V_B_train, iters, cv_ret,
            mmVars, sweepVars>>

vars == <<op, pc, X, heap, n_components, fs, splitVars, shuffleVars, canoVars, cvVars>>

\* no call made yet
NoRet == [status |-> "none"]

NoFrame == [flag_test |-> FALSE, called |-> {}]

----------------------------------------------------------------------------
(* split (utils.py 96-109) and the fold loop that calls it.                *)

\* the fold counts a caller may ask for: the default 10, the spec's {2,5,10}, and small ones
Folds == {1, 2, 3, 5, 10}

\* one time sample of a test signal; rows of different instants differ
EEGRow(tt, ndim) ==
    CASE ndim = 1 -> 10 * tt
      [] ndim = 2 -> <<10 * tt + 1, 10 * tt + 2>>
      [] OTHER    -> <<<<10 * tt + 1, 10 * tt + 2>>, <<10 * tt + 3, 10 * tt + 4>>>>

EEGSignal(T, ndim) == [ndim |-> ndim, rows |-> [tt \in 1..T |-> EEGRow(tt, ndim)]]

StiSignal(T) == [tt \in 1..T |-> 1000 + tt]

len_test_ceil(T, fold_) == (T + fold_ - 1) \div fold_

\* len_test = T // fold
len_test(T, fold_) == T \div fold_

test_stop_short(lt, fold_idx) == lt * fold_idx - 1

\* the first index after the test slice: len_test*fold_idx
test_stop(lt, fold_idx) == lt * fold_idx

\* the first index of the test slice: len_test*(fold_idx-1)
test_start(lt, fold_idx) == lt * (fold_idx - 1)

\* split(EEG, Sti, fold, fold_idx); an EEG that is neither 2-D nor 3-D leaves
\* EEG_test and EEG_train unbound, and the return statement raises
split(EEG_, Sti_, fold_, fold_idx) ==
    LET T  == Len(EEG_.rows)
        lt == len_test(T, fold_)
        lo == test_start(lt, fold_idx)
        hi == test_stop(lt, fold_idx)
    IN  IF EEG_.ndim \in {2, 3}
        THEN [status    |-> "ok",
              fold_idx  |-> fold_idx,
              EEG_train |-> NpDelete(EEG_.rows, lo, hi),
              EEG_test  |-> Slice(EEG_.rows, lo, hi),
              Sti_train |-> NpDelete(Sti_, lo, hi),
              Sti_test  |-> Slice(Sti_, lo, hi)]
        ELSE [status    |-> "UnboundLocalError",
              fold_idx  |-> fold_idx,
              EEG_train |-> None,
              EEG_test  |-> None,
              Sti_train |-> None,
              Sti_test  |-> None]

SplitIdle ==
    /\ EEG = EEGSignal(0, 2)
    /\ Sti = <<>>
    /\ fold = 1
    /\ idx = 0
    /\ splits = <<>>

\* no call of a side-effect-free function is being made
PureIdle ==
    /\ args = <<>>
    /\ out = [status |-> "none"]

ShuffleIdle ==
    /\ t = [num |-> 1, den |-> 10]
    /\ X_shuffled = <<>>
    /\ PureIdle

GccaIdle ==
    /\ W_train = NoneArr
    /\ regularization = "lwcov"
    /\ W_before = <<>>
    /\ gcca_ret = NoRet

CanoIdle ==
    /\ Y = <<>>
    /\ V_A = NoneArr
    /\ V_B = NoneArr
    /\ frame = NoFrame
    /\ ret = NoRet
    /\ train_ret = NoRet
    /\ GccaIdle

\* a name that no assignment has bound yet
Unbound == [bound |-> FALSE]

\* -np.Inf
NegInf == [inf |-> -1]

MmIdle ==
    /\ datalist = <<>>
    /\ rhos = <<>>
    /\ Wlist_train = Unbound

SweepIdle ==
    /\ sweep_list = <<>>
    /\ sweep_pos = 0
    /\ corr_best = NegInf
    /\ rhos_best = Unbound
    /\ sweep_scores = <<>>

CvIdle ==
    /\ L_timefilter = 1
    /\ signifi_level = FALSE
    /\ corr_train = <<>>
    /\ corr_test = <<>>
    /\ V_A_train = NoneArr
    /\ V_B_train = NoneArr
    /\ iters = <<>>
    /\ cv_ret = NoRet
    /\ MmIdle
    /\ SweepIdle

InitSplit ==
    /\ op = "split"
    /\ pc = "loop"
    /\ X = <<>>
    /\ heap = <<>>
    /\ n_components = 1
    /\ fs = 10
    /\ ShuffleIdle
    /\ CanoIdle
    /\ CvIdle
    /\ \E T \in 0..MaxT, ndim \in {1, 2, 3} :
          /\ EEG = EEGSignal(T, ndim)
          /\ Sti = StiSignal(T)
    /\ fold \in Folds
    /\ idx = 0
    /\ splits = <<>>

\* one iteration of `for idx in range(fold)`: split(..., fold=fold, fold_idx=idx+1)
SplitFold ==
    /\ op = "split"
    /\ pc = "loop"
    /\ idx < fold
    /\ LET r == split(EEG, Sti, fold, idx + 1)
       IN  /\ splits' = Append(splits, r)
           /\ pc' = IF r.status # "ok" THEN "raised" ELSE IF idx + 1 = fold THEN "done" ELSE "loop"
    /\ idx' = idx + 1
    /\ UNCHANGED <<op, EEG, Sti, fold, X, heap, n_components, fs, shuffleVars, canoVars, cvVars>>

NextSplit == SplitFold

SpecSplit == InitSplit /\ [][NextSplit]_vars

----------------------------------------------------------------------------
(* C3: split returns the contiguous test slice [len_test*(fold_idx-1),     *)
(* len_test*fold_idx) and, as train set, the remaining samples in their    *)
(* original order; the two are disjoint, their counts sum to T, and the    *)
(* stimulus is cut at the same indices as the EEG.                         *)
SplitContract ==
    \A i \in 1..Len(splits) :
        LET r  == splits[i]
            T  == Len(EEG.rows)
            lt == T \div fold
            lo == lt * (r.fold_idx - 1)
        IN  r.status = "ok" =>
              /\ r.EEG_test  = [k \in 1..lt |-> EEG.rows[lo + k]]
              /\ r.Sti_test  = [k \in 1..lt |-> Sti[lo + k]]
              /\ r.EEG_train = [k \in 1..(T - lt) |-> EEG.rows[IF k <= lo THEN k ELSE k + lt]]
              /\ r.Sti_train = [k \in 1..(T - lt) |-> Sti[IF k <= lo THEN k ELSE k + lt]]
              /\ SeqRange(r.EEG_test) \cap SeqRange(r.EEG_train) = {}
              /\ Len(r.EEG_test) + Len(r.EEG_train) = T
              /\ Len(r.Sti_test) + Len(r.Sti_train) = T

\* a middle fold of a signal that does not divide evenly has been cut
SplitContractWitness ==
    /\ op = "split"
    /\ fold = 3
    /\ Len(EEG.rows) = 7
    /\ Len(splits) >= 2
    /\ splits[2].status = "ok"
    /\ Len(splits[2].EEG_test) = 2
    /\ Len(splits[2].EEG_train) = 5

\* how many of the completed folds hold sample tt in their test set
TestCount(tt) == Cardinality({i \in 1..Len(splits) : EEG.rows[tt] \in SeqRange(splits[i].EEG_test)})

AllFoldsDone == op = "split" /\ pc = "done" /\ fold \in {2, 5, 10}

(* C4 as stated: over fold_idx = 1..fold, fold in {2,5,10}, every one of   *)
(* the T samples is in the test set of exactly one fold.                   *)
FoldsCoverAll ==
    AllFoldsDone => \A tt \in 1..Len(EEG.rows) : TestCount(tt) = 1

(* C4 amended: the test folds never overlap and cover exactly the first    *)
(* fold*(T // fold) samples, each once; the last T mod fold samples are in *)
(* no test set (and in every train set).                                   *)
FoldsCoverPrefix ==
    AllFoldsDone =>
        \A tt \in 1..Len(EEG.rows) :
            /\ TestCount(tt) = (IF tt <= fold * (Len(EEG.rows) \div fold) THEN 1 ELSE 0)
            /\ tt > fold * (Len(EEG.rows) \div fold) =>
                  \A i \in 1..fold : EEG.rows[tt] \in SeqRange(splits[i].EEG_train)

FoldsCoverWitness ==
    /\ AllFoldsDone
    /\ fold = 5
    /\ Len(EEG.rows) = 13
    /\ TestCount(10) = 1
    /\ TestCount(11) = 0

----------------------------------------------------------------------------
(* shuffle_block (utils.py 490-501).                                       *)

\* X[:, :, n] of a T x D x N array: the T x D signal of subject n
Subject(A, n) == [i \in 1..Len(A) |-> [d \in 1..Len(A[i]) |-> A[i][d][n]]]

\* np.zeros((rows, D, N))
Zeros3(rows, D, N) == [i \in 1..rows |-> [d \in 1..D |-> [n \in 1..N |-> 0]]]

\* the orders random.shuffle can leave a list of nb items in
Perms(nb) == {p \in [1..nb -> 1..nb] : \A i, j \in 1..nb : i # j => p[i] # p[j]}

\* int(t*fs) for t = num/den >= 0: truncation
block_len_of(t_, fs_) == (t_.num * fs_) \div t_.den

pad_len_to_multiple(T, block_len) == (block_len - (T % block_len)) % block_len

\* rows of the appended zero array: block_len - T % block_len, a whole block when T divides
pad_len(T, block_len) == block_len - (T % block_len)

\* the blocks X[i:i+block_len, :, n] for i in range(0, T_appended, block_len)
Blocks(sig, block_len) ==
    [b \in 1..(Len(sig) \div block_len) |-> SubSeq(sig, (b - 1) * block_len + 1, b * block_len)]

\* np.concatenate(tuple(blocks), axis=0) of blocks of equal length
ConcatBlocks(blocks, block_len) ==
    [i \in 1..(Len(blocks) * block_len) |->
        blocks[((i - 1) \div block_len) + 1][((i - 1) % block_len) + 1]]

subject_order_shared(order, n) == order[1]

\* the order random.shuffle leaves the blocks of subject n in: one call per subject
\* (line 499, inside the loop over n)
subject_order(order, n) == order[n]

\* shuffle_block(X, t, fs); order[n] is the order random.shuffle leaves subject n's blocks in
shuffle_block(X_, t_, fs_, D, N, order) ==
    LET block_len  == block_len_of(t_, fs_)
        T          == Len(X_)
        Xa         == X_ \o Zeros3(pad_len(T, block_len), D, N)
        T_appended == Len(Xa)
        shuffled(n) ==
            LET blocks == Blocks(Subject(Xa, n), block_len)
            IN  ConcatBlocks([b \in 1..Len(blocks) |-> blocks[subject_order(order, n)[b]]], block_len)
    IN  [i \in 1..T_appended |-> [d \in 1..D |-> [n \in 1..N |-> shuffled(n)[i][d]]]]

\* a T x D x N test signal with no zero sample and no two equal samples per subject
Signal3(T, D, N) == [i \in 1..T |-> [d \in 1..D |-> [n \in 1..N |-> 100 * i + 10 * d + n]]]

ShapeD(A) == IF Len(A) = 0 THEN 0 ELSE Len(A[1])

ShapeN(A) == IF Len(A) = 0 \/ Len(A[1]) = 0 THEN 0 ELSE Len(A[1][1])

\* the sampling rates and block durations tried: int(t*fs) is 1, 2, 2 (from 2.5) or 3
ShuffleRates == {10, 20, 25, 30}

NBlocksOf(T, block_len) == (T + pad_len(T, block_len)) \div block_len

InitShuffle ==
    /\ op = "shuffle_block"
    /\ pc = "start"
    /\ heap = <<>>
    /\ n_components = 1
    /\ SplitIdle
    /\ CanoIdle
    /\ CvIdle
    /\ t = [num |-> 1, den |-> 10]
    /\ fs \in ShuffleRates
    /\ \E T \in 1..MaxTShuffle, D \in 1..2, N \in 1..2 :
          /\ NBlocksOf(T, block_len_of(t, fs)) <= MaxBlocks
          /\ X = Signal3(T, D, N)
    /\ X_shuffled = <<>>
    /\ PureIdle

ShuffleBlock ==
    /\ op = "shuffle_block"
    /\ pc = "start"
    /\ pc' = "done"
    /\ \E order \in [1..ShapeN(X) -> Perms(NBlocksOf(Len(X), block_len_of(t, fs)))] :
          X_shuffled' = shuffle_block(X, t, fs, ShapeD(X), ShapeN(X), order)
    /\ UNCHANGED <<op, X, t, fs, heap, n_components, pureVars, splitVars, canoVars, cvVars>>

NextShuffle == ShuffleBlock

SpecShuffle == InitShuffle /\ [][NextShuffle]_vars

\* how often row v occurs in signal sig
Count(sig, v) == Cardinality({i \in 1..Len(sig) : sig[i] = v})

ShuffleDone == op = "shuffle_block" /\ pc = "done"

(* C5 (as stated): the output of shuffle_block has the same number of time *)
(* samples T as X and, for every subject, the same multiset of sample rows. *)
ShufflePreservesAll ==
    ShuffleDone =>
        /\ Len(X_shuffled) = Len(X)
        /\ \A n \in 1..ShapeN(X) :
              \A v \in SeqRange(Subject(X, n)) \cup SeqRange(Subject(X_shuffled, n)) :
                  Count(Subject(X_shuffled, n), v) = Count(Subject(X, n), v)

(* C5 (amended): the output has T + (block_len - T mod block_len) samples, *)
(* at least one more than X, and for every subject its multiset of rows is *)
(* that of X plus block_len - T mod block_len all-zero rows.               *)
ShufflePreservesPadded ==
    ShuffleDone =>
        LET bl   == (t.num * fs) \div t.den
            pad  == bl - (Len(X) % bl)
            zero == [d \in 1..ShapeD(X) |-> 0]
        IN  /\ Len(X_shuffled) = Len(X) + pad
            /\ pad >= 1
            /\ \A n \in 1..ShapeN(X) :
                  \A v \in SeqRange(Subject(X, n)) \cup SeqRange(Subject(X_shuffled, n)) :
                      Count(Subject(X_shuffled, n), v) =
                          Count(Subject(X, n), v) + (IF v = zero THEN pad ELSE 0)

\* a signal of whole blocks was shuffled: a full block of zeros was added and moved to the front
ShufflePaddedWitness ==
    /\ ShuffleDone
    /\ fs = 20
    /\ Len(X) = 4
    /\ ShapeN(X) = 2
    /\ Len(X_shuffled) = 6
    /\ X_shuffled[1][1][1] = 0
    /\ X_shuffled[1][1][2] # 0

\* the most combinations of per-subject orders for which each one is tried
MaxOrders == 24

\* all combinations of one block order per subject
ShuffleOrders ==
    [1..ShapeN(X) -> Perms((Len(X) \div block_len_of(t, fs)) + 1)]

\* the zero-padded input, sample r of channel d of subject n
ShufflePadded(r, d, n) == IF r <= Len(X) THEN X[r][d][n] ELSE 0

\* block b (1-based) of the T x D rows sig
BlockAt(sig, b, bl) == [i \in 1..bl |-> sig[(b - 1) * bl + i]]

\* the zero-padded input of subject n, all D channels of a sample in one row
ShufflePaddedSubject(n) ==
    LET bl == block_len_of(t, fs)
    IN  [r \in 1..(((Len(X) \div bl) + 1) * bl) |-> [d \in 1..ShapeD(X) |-> ShufflePadded(r, d, n)]]

\* the array whose subject n holds the blocks of the padded input in the order o[n]
ShuffleExpected(o) ==
    LET bl == block_len_of(t, fs)
    IN  [i \in 1..(((Len(X) \div bl) + 1) * bl) |->
            [d \in 1..ShapeD(X) |->
                [n \in 1..ShapeN(X) |->
                    ShufflePadded((o[n][((i - 1) \div bl) + 1] - 1) * bl + ((i - 1) % bl) + 1, d, n)]]]

\* the block of the padded input that block b of the output of subject n is
ShuffleSource(n, b) ==
    LET bl == block_len_of(t, fs)
    IN  CHOOSE c \in 1..((Len(X) \div bl) + 1) :
            BlockAt(Subject(X_shuffled, n), b, bl) = BlockAt(ShufflePaddedSubject(n), c, bl)

(* C14: for each subject the output of shuffle_block is the concatenation, *)
(* in a permuted order, of the consecutive blocks of block_len samples of  *)
(* that subject's zero-padded input: every block once, the samples of a    *)
(* block in their order, the D channels of a sample in one row; and every  *)
(* combination of one block order per subject is a possible outcome.       *)
ShuffleBlockwise ==
    /\ ShuffleDone =>
          LET bl == block_len_of(t, fs)
              nb == (Len(X) \div bl) + 1
          IN  /\ Len(X_shuffled) = nb * bl
              /\ \A n \in 1..ShapeN(X) :
                    /\ \A b \in 1..nb : \E c \in 1..nb :
                          BlockAt(Subject(X_shuffled, n), b, bl) = BlockAt(ShufflePaddedSubject(n), c, bl)
                    /\ \A b1, b2 \in 1..nb :
                          b1 # b2 => ShuffleSource(n, b1) # ShuffleSource(n, b2)
    /\ (op = "shuffle_block" /\ pc = "start" /\ Cardinality(ShuffleOrders) <= MaxOrders) =>
          \A o \in ShuffleOrders : ENABLED (ShuffleBlock /\ X_shuffled' = ShuffleExpected(o))

\* two subjects of three blocks each came out in different block orders, the
\* two channels of every sample still side by side
ShuffleBlockwiseWitness ==
    /\ ShuffleDone
    /\ fs = 20
    /\ Len(X) = 5
    /\ ShapeD(X) = 2
    /\ ShapeN(X) = 2
    /\ X_shuffled = ShuffleExpected(<<(<<3, 1, 2>>), (<<2, 3, 1>>)>>)
    /\ X_shuffled[3][1][1] = X[1][1][1]
    /\ X_shuffled[3][2][1] = X[1][2][1]
    /\ X_shuffled[1][1][2] = X[3][1][2]

----------------------------------------------------------------------------
(* cano_corr (utils.py 161-212).                                           *)

\* EEG data sets T x D, of full column rank once centred (no flat or collinear channel)
DataX ==
    { <<<<0>>, <<1>>, <<2>>, <<1>>>>,
      <<<<2>>, <<0>>, <<1>>, <<3>>>>,
      <<<<0, 0>>, <<1, 0>>, <<0, 1>>, <<2, 1>>>>,
      <<<<1, 2>>, <<0, 1>>, <<2, 0>>, <<1, 1>>>> }

\* stimulus matrices T x L, of full column rank once centred
DataY ==
    { <<<<1>>, <<0>>, <<2>>, <<2>>>>,
      <<<<0>>, <<2>>, <<1>>, <<0>>>>,
      <<<<1, 0>>, <<0, 0>>, <<1, 1>>, <<0, 2>>>>,
      <<<<0, 1>>, <<2, 1>>, <<1, 0>>, <<1, 2>>>> }

\* the columns a filter matrix is built from: non-zero vectors of either sign
FilterVecs(D) ==
    IF D = 1 THEN {<<1>>, <<-1>>}
    ELSE {<<1, 0>>, <<0, -1>>, <<1, 1>>, <<-1, 1>>}

\* what eig_sorted can return for a D x D matrix: D eigenvectors, none of them zero
EigOutputs(D) == {FromCols(cols, D) : cols \in [1..D -> FilterVecs(D)]}

\* no eigendecomposition is run
NoEig == <<>>

\* the eigensolver's possible results in a call: it only runs when V_A is not supplied
EigRuns(V_A_, D) == IF IsNone(V_A_) THEN EigOutputs(D) ELSE {NoEig}

\* the filter matrices a caller can hold: D rows, 1 or 2 columns
CallerFilters(D) == UNION {{FromCols(cols, D) : cols \in [1..K -> FilterVecs(D)]} : K \in 1..2}

flag_test_never(V_A_) == FALSE

\* lines 169-172: test mode iff V_A is supplied
flag_test_of(V_A_) == ~IsNone(V_A_)

normalises_always(flag_test) == TRUE

\* line 208: the sign normalisation runs in train mode only
normalises(flag_test) == ~flag_test

n_corr_available(n, X_trans, Y_trans) == Min(n, Min(NCols(X_trans), NCols(Y_trans)))

\* line 204: the correlations are computed for k in range(n_components)
n_corr(n, X_trans, Y_trans) == n

\* corr_coe<0, as the set of the components it selects
neg_mask(corr) == {k \in 1..Len(corr) : IsNeg(corr[k])}

flip_filters_none(M, mask) == M

\* line 210: V_A[:,corr_coe<0] = -1*V_A[:,corr_coe<0]
flip_filters(M, mask) ==
    [i \in 1..Len(M) |-> [k \in 1..NCols(M) |-> IF k \in mask THEN -M[i][k] ELSE M[i][k]]]

flip_corr_none(corr, mask) == corr

\* line 211: corr_coe[corr_coe<0] = -1*corr_coe[corr_coe<0]
flip_corr(corr, mask) == [k \in 1..Len(corr) |-> IF k \in mask THEN NegCorr(corr[k]) ELSE corr[k]]

\* the library routines a call runs: covariance estimation and eigendecomposition in train mode only
called_by(flag_test, regularizaion) ==
    IF flag_test THEN {"pearsonr"}
    ELSE {"np.cov", "PCAreg_inv", "eig_sorted", "pearsonr"}
         \cup (IF regularizaion = "lwcov" THEN {"LedoitWolf"} ELSE {})

\* cano_corr(X, Y, n_components, regularizaion, K_regu, V_A, V_B) on heap h.  eigA and
\* eigB are what eig_sorted(A) and eig_sorted(B) return (train mode); K_regu only
\* changes A and B, and so is covered by the choice of eigA and eigB.
cano_corr(X_, Y_, n, regularizaion, V_A_, V_B_, h, eigA, eigB) ==
    LET flag_test == flag_test_of(V_A_)
        raise(e, h_) == [status |-> e, heap |-> h_, flag_test |-> flag_test,
                         called |-> called_by(flag_test, regularizaion) \ {"pearsonr"}]
    IN  IF flag_test /\ IsNone(V_B_) THEN raise("TypeError", h)
        ELSE
        LET \* lines 198-201: the filters are new arrays in train mode, the caller's in test mode
            arrA == IF flag_test THEN V_A_ ELSE CArr(Len(h) + 1, <<Len(eigA), Min(n, NCols(eigA))>>)
            arrB == IF flag_test THEN V_B_ ELSE CArr(Len(h) + 2, <<Len(eigB), Min(n, NCols(eigB))>>)
            h1   == IF flag_test THEN h
                    ELSE h \o <<Flat(ColsUpTo(eigA, n)), Flat(ColsUpTo(eigB, n))>>
            V_A0 == Mat(h1, arrA)
            V_B0 == Mat(h1, arrB)
            X_trans == MatMul(X_, V_A0)
            Y_trans == MatMul(Y_, V_B0)
            nk == n_corr(n, X_trans, Y_trans)
        IN  IF nk > NCols(X_trans) \/ nk > NCols(Y_trans) THEN raise("IndexError", h1)
            ELSE
            LET corr_raw == [k \in 1..nk |-> PearsonR(Col(X_trans, k), Col(Y_trans, k))]
                p_value  == [k \in 1..nk |-> PValue(corr_raw[k], Len(X_))]
                norm     == normalises(flag_test)
                mask     == neg_mask(corr_raw)
                h2       == IF norm THEN WriteMat(h1, arrA, flip_filters(V_A0, mask)) ELSE h1
                corr_coe == IF norm THEN flip_corr(corr_raw, mask) ELSE corr_raw
            IN  [status |-> "ok", heap |-> h2, flag_test |-> flag_test,
                 called |-> called_by(flag_test, regularizaion),
                 V_A0 |-> V_A0, V_B0 |-> V_B0, corr_raw |-> corr_raw,
                 corr_coe |-> corr_coe, p_value |-> p_value, V_A |-> arrA, V_B |-> arrB]

\* the locals of a call, and what it hands back to the caller
FrameOf(c) ==
    IF c.status = "ok"
    THEN [flag_test |-> c.flag_test, called |-> c.called,
          V_A0 |-> c.V_A0, V_B0 |-> c.V_B0, corr_raw |-> c.corr_raw]
    ELSE [flag_test |-> c.flag_test, called |-> c.called]

RetOf(c) ==
    IF c.status = "ok"
    THEN [status |-> "ok", corr_coe |-> c.corr_coe, p_value |-> c.p_value, V_A |-> c.V_A, V_B |-> c.V_B]
    ELSE [status |-> c.status]

Regularizations == {"None", "lwcov"}

InitCano ==
    /\ op = "cano_corr"
    /\ pc = "start"
    /\ SplitIdle
    /\ ShuffleIdle
    /\ CvIdle
    /\ fs = 10
    /\ X \in DataX
    /\ Y \in DataY
    /\ n_components \in 1..MaxComp
    /\ \/ /\ heap = <<>>
          /\ V_A = NoneArr
          /\ V_B = NoneArr
       \/ \E FA \in CallerFilters(NCols(X)), FB \in CallerFilters(NCols(Y)) :
             /\ heap = <<Flat(FA), Flat(FB)>>
             /\ V_A = CArr(1, <<Len(FA), NCols(FA)>>)
             /\ V_B \in {CArr(2, <<Len(FB), NCols(FB)>>), NoneArr}
    /\ frame = NoFrame
    /\ ret = NoRet
    /\ train_ret = NoRet
    /\ GccaIdle

\* the caller runs cano_corr(X, Y, n_components, regularizaion, V_A=V_A, V_B=V_B)
CanoCorr ==
    /\ op = "cano_corr"
    /\ pc = "start"
    /\ \E reg \in Regularizations, eigA \in EigRuns(V_A, NCols(X)), eigB \in EigRuns(V_A, NCols(Y)) :
          LET c == cano_corr(X, Y, n_components, reg, V_A, V_B, heap, eigA, eigB)
          IN  /\ heap' = c.heap
              /\ frame' = FrameOf(c)
              /\ ret' = RetOf(c)
              /\ pc' = IF c.status = "ok" THEN "returned" ELSE "raised"
    /\ UNCHANGED <<op, X, Y, n_components, fs, V_A, V_B, train_ret, gccaVars, splitVars, shuffleVars, cvVars>>

\* after a fit, the caller tests on the same X, Y with the filters the fit returned
CanoCorrRetest ==
    /\ op = "cano_corr"
    /\ pc = "returned"
    /\ ~frame.flag_test
    /\ LET c == cano_corr(X, Y, n_components, "None", ret.V_A, ret.V_B, heap, NoEig, NoEig)
       IN  /\ heap' = c.heap
           /\ frame' = FrameOf(c)
           /\ ret' = RetOf(c)
           /\ pc' = IF c.status = "ok" THEN "retested" ELSE "raised"
    /\ V_A' = ret.V_A
    /\ V_B' = ret.V_B
    /\ train_ret' = ret
    /\ UNCHANGED <<op, X, Y, n_components, fs, gccaVars, splitVars, shuffleVars, cvVars>>

NextCano == CanoCorr \/ CanoCorrRetest

SpecCano == InitCano /\ [][NextCano]_vars

TrainReturned == op = "cano_corr" /\ pc = "returned" /\ ~frame.flag_test

NegCol(M, k) == [i \in 1..Len(M) |-> -M[i][k]]

(* C1: after a train-mode cano_corr every returned corr_coe[k], k in       *)
(* 0..n_components-1, is >= 0 and is the correlation of X@V_A[:,k] with    *)
(* Y@V_B[:,k] for the returned filters; column k of V_A is negated exactly *)
(* when the correlation before normalisation was negative, and V_B is      *)
(* never negated.                                                          *)
CanoSignNormalised ==
    TrainReturned =>
        /\ Len(ret.corr_coe) = n_components
        /\ Mat(heap, ret.V_B) = frame.V_B0
        /\ \A k \in 1..n_components :
              /\ IsNonNeg(ret.corr_coe[k])
              /\ ret.corr_coe[k] = PearsonR(Col(MatMul(X, Mat(heap, ret.V_A)), k),
                                            Col(MatMul(Y, Mat(heap, ret.V_B)), k))
              /\ Col(Mat(heap, ret.V_A), k) =
                    (IF frame.corr_raw[k].sgn < 0 THEN NegCol(frame.V_A0, k) ELSE Col(frame.V_A0, k))

\* a fit of two components, the first found negative and flipped, the second positive and kept
CanoSignWitness ==
    /\ TrainReturned
    /\ n_components = 2
    /\ frame.corr_raw[1].sgn < 0
    /\ frame.corr_raw[2].sgn > 0
    /\ ret.corr_coe[1].sgn > 0
    /\ Col(Mat(heap, ret.V_A), 1) # Col(frame.V_A0, 1)

(* C2: CCA round trip: a train-mode call followed by a test-mode call on   *)
(* the same X, Y with the returned V_A, V_B yields, component by           *)
(* component, the correlation coefficients the train call returned.        *)
CanoRoundTrip ==
    (op = "cano_corr" /\ train_ret.status = "ok") =>
        /\ pc = "retested"
        /\ ret.status = "ok"
        /\ Len(ret.corr_coe) = n_components
        /\ \A k \in 1..n_components : ret.corr_coe[k] = train_ret.corr_coe[k]

\* a round trip of two components with correlations that are neither 0 nor equal
CanoRoundTripWitness ==
    /\ op = "cano_corr"
    /\ pc = "retested"
    /\ n_components = 2
    /\ ret.corr_coe[1].sgn > 0
    /\ ret.corr_coe[2].sgn > 0
    /\ ret.corr_coe[1] # ret.corr_coe[2]

\* the routines that estimate covariances or decompose them
Estimators == {"np.cov", "LedoitWolf", "PCAreg_inv", "eig_sorted"}

(* C7: a test-mode cano_corr (V_A and V_B supplied) estimates no           *)
(* covariance and runs no eigendecomposition, flips neither filters nor    *)
(* correlations, returns exactly the supplied V_A and V_B, and leaves the  *)
(* caller's arrays (the whole heap) unchanged.                             *)
CanoTestModeFrame ==
    [][(op = "cano_corr" /\ frame'.flag_test /\ pc' \in {"returned", "retested"}) =>
          /\ heap' = heap
          /\ ret'.V_A = V_A'
          /\ ret'.V_B = V_B'
          /\ V_A' = (IF pc = "start" THEN V_A ELSE ret.V_A)
          /\ V_B' = (IF pc = "start" THEN V_B ELSE ret.V_B)
          /\ frame'.called \cap Estimators = {}
          /\ ret'.corr_coe = frame'.corr_raw
          /\ Mat(heap', ret'.V_A) = frame'.V_A0]_vars

\* a test-mode call on the caller's own filters returned a negative correlation
CanoTestModeWitness ==
    /\ op = "cano_corr"
    /\ pc = "returned"
    /\ frame.flag_test
    /\ ret.V_A = V_A
    /\ \E k \in 1..n_components : ret.corr_coe[k].sgn < 0

\* the first call was in train mode and has ended
TrainEnded == op = "cano_corr" /\ pc \in {"returned", "raised"} /\ ~frame.flag_test

(* C10 (as stated): a train-mode cano_corr with n_components larger than   *)
(* the number of available components returns without raising an error,   *)
(* with correlations and filters for only the available components.        *)
CanoExcessTruncates ==
    (TrainEnded /\ n_components > Min(NCols(X), NCols(Y))) =>
        /\ pc = "returned"
        /\ Len(ret.corr_coe) = Min(NCols(X), NCols(Y))

(* C10 (amended): with n_components > min(D, L) the slices V_A[:,:n] and   *)
(* V_B[:,:n] are cut silently to D and L columns, but the call then raises *)
(* IndexError in the correlation loop and returns nothing; with            *)
(* n_components <= min(D, L) it returns n_components correlations.         *)
CanoExcessRaises ==
    TrainEnded =>
        /\ Len(heap) = 2
        /\ Len(heap[1]) = NCols(X) * Min(n_components, NCols(X))
        /\ Len(heap[2]) = NCols(Y) * Min(n_components, NCols(Y))
        /\ IF n_components > Min(NCols(X), NCols(Y))
           THEN pc = "raised" /\ ret = [status |-> "IndexError"]
           ELSE pc = "returned" /\ Len(ret.corr_coe) = n_components

\* three components asked of two channels and two taps: both filters cut to two columns, then the raise
CanoExcessWitness ==
    /\ TrainEnded
    /\ n_components = 3
    /\ NCols(X) = 2
    /\ NCols(Y) = 2
    /\ Len(heap[1]) = 4
    /\ pc = "raised"
    /\ ret.status = "IndexError"

----------------------------------------------------------------------------
(* convolution_mtx (utils.py 49-80).                                       *)

\* scipy.linalg.toeplitz(r): the symmetric matrix of first row r
Toeplitz_symmetric(c, r) ==
    [i \in 1..Len(c) |-> [j \in 1..Len(r) |->
        IF Abs(j - i) + 1 <= Len(r) THEN r[Abs(j - i) + 1] ELSE 0]]

\* scipy.linalg.toeplitz(c, r): first column c, first row r (r[0] is ignored)
Toeplitz(c, r) ==
    [i \in 1..Len(c) |-> [j \in 1..Len(r) |-> IF i >= j THEN c[i - j + 1] ELSE r[j - i + 1]]]

\* np.transpose of a matrix with at least one row
TransposeM(M) == [j \in 1..NCols(M) |-> [i \in 1..Len(M) |-> M[i][j]]]

assert_odd_skipped(L) == TRUE

\* line 74: assert(L_timefilter % 2 == 1)
assert_odd(L) == L % 2 = 1

\* convolution_mtx(L_timefilter, x, causal)
convolution_mtx(L, x, causal) ==
    IF L = 0 \/ Len(x) = 0 THEN [status |-> "IndexError", M |-> <<>>]
    ELSE
    LET first_col == [i \in 1..L |-> IF i = 1 THEN x[1] ELSE 0]
    IN  IF causal
        THEN [status |-> "ok", M |-> TransposeM(Toeplitz(first_col, x))]
        ELSE IF ~assert_odd(L) THEN [status |-> "AssertionError", M |-> <<>>]
        ELSE LET Lh == (L - 1) \div 2
                 xa == x \o [i \in 1..Lh |-> 0]
             IN  [status |-> "ok",
                  M |-> SubSeq(TransposeM(Toeplitz(first_col, xa)), Lh + 1, Len(xa))]

----------------------------------------------------------------------------
(* cross_val_CCA (utils.py 449-465).                                       *)

\* 0.0, as np.zeros fills the result arrays
Zero == [sgn |-> 0, num |-> 0, den |-> 1]

\* np.zeros((rows, cols))
Zeros2(rows, cols) == [i \in 1..rows |-> [k \in 1..cols |-> Zero]]

\* a test recording: each sample differs from every other one, in each channel
CvChannel1 == <<2, 7, 1, 8, 3, 9, 4, 6, 5, 0>>

CvChannel2 == <<1, 0, 2, 1, 3, 0, 2, 4, 1, 3>>

CvFeature == <<1, 3, 0, 2, 5, 1, 4, 2, 6, 0>>

CvEEG(T, D) ==
    [ndim |-> 2,
     rows |-> [tt \in 1..T |-> IF D = 1 THEN <<CvChannel1[tt]>> ELSE <<CvChannel1[tt], CvChannel2[tt]>>]]

CvSti(T) == SubSeq(CvFeature, 1, T)

\* the shapes tried: channels D, filter length, components; the last asks for too many
CvShapes ==
    { [D |-> 1, L |-> 1, n |-> 1], [D |-> 1, L |-> 2, n |-> 1], [D |-> 2, L |-> 1, n |-> 1],
      [D |-> 2, L |-> 2, n |-> 1], [D |-> 2, L |-> 2, n |-> 2], [D |-> 1, L |-> 2, n |-> 2] }

\* the filters of the fit before this one, if there was one
filters_of_previous_fit(prev, cur) == IF prev \in {NoneArr, Unbound} THEN cur ELSE prev

\* lines 455-457: the test-mode call gets the V_A_train, V_B_train assigned in this iteration
filters_for_test(prev, cur) == cur

\* a stage of the loop body that raised: the exception and the heap it leaves
raised(e, h) == [status |-> e, heap |-> h]

\* lines 454-455: the convolution matrix of the training stimulus, then the train-mode cano_corr
cv_fit(sp, L, n, reg, h, eigA, eigB) ==
    IF sp.status # "ok" THEN raised(sp.status, h)
    ELSE LET conv_mtx_train == convolution_mtx(L, sp.Sti_train, TRUE)
         IN  IF conv_mtx_train.status # "ok" THEN raised(conv_mtx_train.status, h)
             ELSE cano_corr(sp.EEG_train, conv_mtx_train.M, n, reg, NoneArr, NoneArr, h, eigA, eigB)

\* lines 456-457: the convolution matrix of the test stimulus, then the test-mode cano_corr
cv_test(sp, tr, L, n, prevA, prevB) ==
    IF tr.status # "ok" THEN raised(tr.status, tr.heap)
    ELSE LET conv_mtx_test == convolution_mtx(L, sp.Sti_test, TRUE)
         IN  IF conv_mtx_test.status # "ok" THEN raised(conv_mtx_test.status, tr.heap)
             ELSE cano_corr(sp.EEG_test, conv_mtx_test.M, n, "None",
                            filters_for_test(prevA, tr.V_A), filters_for_test(prevB, tr.V_B),
                            tr.heap, NoEig, NoEig)

\* the local variables of one completed iteration
cv_locals(sp, tr, te) ==
    [EEG_train |-> sp.EEG_train, EEG_test |-> sp.EEG_test,
     Sti_train |-> sp.Sti_train, Sti_test |-> sp.Sti_test,
     fit_called |-> tr.called, test_called |-> te.called,
     V_A |-> Mat(te.heap, tr.V_A), V_B |-> Mat(te.heap, tr.V_B)]

CvFolds == {2, 3}

\* the sampling rates tried: equal to a filter length of the model, or not
CvRates == {2, 10}

\* the eigenvectors tried in the cross-validation: linearly independent columns
CvFilterVecs(D) == IF D = 1 THEN FilterVecs(1) ELSE {<<1, 0>>, <<1, 1>>, <<-1, 1>>}

CvEigOutputs(D) ==
    {FromCols(cols, D) : cols \in {c \in [1..D -> CvFilterVecs(D)] : \A i, j \in 1..D : i # j => c[i] # c[j]}}

\* the calls tried; 2 channels with 2 taps are tried in 2 folds on the longer recordings only,
\* and the sampling rate is varied where it is used, in the permutation test
InitCvCCA ==
    /\ op = "cross_val_CCA"
    /\ pc = "loop"
    /\ X = <<>>
    /\ heap = <<>>
    /\ ShuffleIdle
    /\ CanoIdle
    /\ fold \in CvFolds
    /\ signifi_level \in BOOLEAN
    /\ fs \in (IF signifi_level THEN CvRates ELSE {10})
    /\ \E shape \in CvShapes, T \in (2 * fold)..MaxCvT :
          /\ (shape.D = 2 /\ shape.L = 2) => (fold = 2 /\ T >= MaxCvT - 1)
          /\ EEG = CvEEG(T, shape.D)
          /\ Sti = CvSti(T)
          /\ L_timefilter = shape.L
          /\ n_components = shape.n
    /\ idx = 0
    /\ splits = <<>>
    /\ corr_train = Zeros2(fold, n_components)
    /\ corr_test = Zeros2(fold, n_components)
    /\ V_A_train = NoneArr
    /\ V_B_train = NoneArr
    /\ iters = <<>>
    /\ cv_ret = NoRet
    /\ MmIdle
    /\ SweepIdle

\* int(0.1*fs), the block length permutation_test hands to shuffle_block
perm_block_len(fs_) == block_len_of([num |-> 1, den |-> 10], fs_)

\* line 511: L_timefilter = fs, the number of columns of conv_mtx_shuffled
perm_L_timefilter(fs_) == fs_

\* lines 458-461: the permutation test reuses the fitted filters; its trials only feed
\* the printed significance level, but a trial can raise: shuffle_block divides by a
\* block length of 0, and conv_mtx_shuffled (fs columns) @ V_B needs fs = rows of V_B
permutation_test_status(fs_, V_B_) ==
    IF perm_block_len(fs_) = 0 THEN "ZeroDivisionError"
    ELSE IF perm_L_timefilter(fs_) # V_B_.shape[1] THEN "ValueError"
    ELSE "ok"

\* one iteration of the fold loop of cross_val_CCA
CrossValCCAIter ==
    /\ op = "cross_val_CCA"
    /\ pc = "loop"
    /\ idx < fold
    /\ \E eigA \in CvEigOutputs(NCols(EEG.rows)), eigB \in CvEigOutputs(L_timefilter) :
       \E sp \in {split(EEG, Sti, fold, idx + 1)} :
       \E tr \in {cv_fit(sp, L_timefilter, n_components, "lwcov", heap, eigA, eigB)} :
       \E te \in {cv_test(sp, tr, L_timefilter, n_components, V_A_train, V_B_train)} :
          /\ heap' = te.heap
          /\ IF te.status = "ok"
             THEN /\ corr_train' = [corr_train EXCEPT ![idx + 1] = tr.corr_coe]
                  /\ corr_test' = [corr_test EXCEPT ![idx + 1] = te.corr_coe]
                  /\ V_A_train' = tr.V_A
                  /\ V_B_train' = tr.V_B
                  /\ iters' = Append(iters, cv_locals(sp, tr, te))
                  /\ idx' = idx + 1
                  /\ pc' = IF idx + 1 = fold THEN "after_loop" ELSE "loop"
                  /\ cv_ret' = cv_ret
             ELSE /\ pc' = "raised"
                  /\ cv_ret' = [status |-> te.status]
                  /\ UNCHANGED <<corr_train, corr_test, V_A_train, V_B_train, iters, idx>>
    /\ UNCHANGED <<op, X, n_components, fs, EEG, Sti, fold, splits, L_timefilter, signifi_level,
                   shuffleVars, canoVars, mmVars, sweepVars>>

\* lines 458-465: the permutation test if asked for, then the return
CrossValCCAReturn ==
    /\ op = "cross_val_CCA"
    /\ pc = "after_loop"
    /\ LET st == IF signifi_level THEN permutation_test_status(fs, V_B_train) ELSE "ok"
       IN  /\ pc' = IF st = "ok" THEN "done" ELSE "raised"
           /\ cv_ret' = IF st = "ok"
                        THEN [status |-> "ok",
                              value |-> <<corr_train, corr_test, V_A_train, V_B_train>>]
                        ELSE [status |-> st]
    /\ UNCHANGED <<op, X, heap, n_components, fs, splitVars, L_timefilter, signifi_level,
                   corr_train, corr_test, V_A_train, V_B_train, iters, shuffleVars, canoVars,
                   mmVars, sweepVars>>

----------------------------------------------------------------------------
(* split_multi_mod (utils.py 112-128).                                     *)

\* the body of `for data in datalist`, entry after entry: an entry that is neither
\* 2-D nor 3-D only prints a warning (line 125), so data_train and data_test keep
\* the values of the previous entry, or are unbound at the first one
RECURSIVE split_multi_mod_loop(_, _, _, _)
split_multi_mod_loop(rest, fold_, fold_idx, acc) ==
    IF Len(rest) = 0 \/ acc.status # "ok" THEN acc
    ELSE
    LET data == Head(rest)
        lt   == len_test(Len(data.rows), fold_)
        lo   == test_start(lt, fold_idx)
        hi   == test_stop(lt, fold_idx)
        data_test  == IF data.ndim \in {2, 3}
                      THEN [bound |-> TRUE, ndim |-> data.ndim, rows |-> Slice(data.rows, lo, hi)]
                      ELSE acc.data_test
        data_train == IF data.ndim \in {2, 3}
                      THEN [bound |-> TRUE, ndim |-> data.ndim, rows |-> NpDelete(data.rows, lo, hi)]
                      ELSE acc.data_train
    IN  split_multi_mod_loop(Tail(rest), fold_, fold_idx,
            IF ~data_train.bound
            THEN [acc EXCEPT !.status = "UnboundLocalError"]
            ELSE [status     |-> "ok",
                  train_list |-> Append(acc.train_list, [ndim |-> data_train.ndim, rows |-> data_train.rows]),
                  test_list  |-> Append(acc.test_list, [ndim |-> data_test.ndim, rows |-> data_test.rows]),
                  data_train |-> data_train,
                  data_test  |-> data_test])

split_multi_mod(datalist_, fold_, fold_idx) ==
    split_multi_mod_loop(datalist_, fold_, fold_idx,
        [status |-> "ok", train_list |-> <<>>, test_list |-> <<>>,
         data_train |-> Unbound, data_test |-> Unbound])

----------------------------------------------------------------------------
(* cross_val_GCCA_multi_mod (utils.py 468-487) and what it calls.          *)

\* the number of elements of one time sample of an entry
SampleSize(e) ==
    CASE e.ndim = 1 -> 1
      [] e.ndim = 2 -> Len(e.rows[1])
      [] OTHER      -> Len(e.rows[1]) * Len(e.rows[1][1])

\* convolution_mtx(L_timefilter, entry): first_col[0] = x[0] needs x[0] to hold one
\* element, and toeplitz ravels its second argument
conv_entry(L, e) ==
    IF Len(e.rows) = 0 THEN [status |-> "IndexError"]
    ELSE IF SampleSize(e) # 1 THEN [status |-> "ValueError"]
    ELSE LET x == [tt \in 1..Len(e.rows) |->
                      CASE e.ndim = 1 -> e.rows[tt]
                        [] e.ndim = 2 -> e.rows[tt][1]
                        [] OTHER      -> e.rows[tt][1][1]]
             c == convolution_mtx(L, x, TRUE)
         IN  IF c.status # "ok" THEN [status |-> c.status]
             ELSE [status |-> "ok", entry |-> [ndim |-> 2, rows |-> c.M]]

\* lines 474-476: entries 1.. of both lists are replaced by their convolution matrices
RECURSIVE conv_lists(_, _, _)
conv_lists(L, ls, i) ==
    IF ls.status # "ok" \/ i > Len(ls.train_list) THEN ls
    ELSE LET ctr == conv_entry(L, ls.train_list[i])
             cte == conv_entry(L, ls.test_list[i])
         IN  IF ctr.status # "ok" THEN [status |-> ctr.status]
             ELSE IF cte.status # "ok" THEN [status |-> cte.status]
             ELSE conv_lists(L, [status     |-> "ok",
                                 train_list |-> [ls.train_list EXCEPT ![i] = ctr.entry],
                                 test_list  |-> [ls.test_list EXCEPT ![i] = cte.entry]], i + 1)

\* lines 473-476
mm_lists(datalist_, L, fold_, fold_idx) ==
    LET sp == split_multi_mod(datalist_, fold_, fold_idx)
    IN  IF sp.status # "ok" THEN [status |-> sp.status]
        ELSE conv_lists(L, [status |-> "ok", train_list |-> sp.train_list, test_list |-> sp.test_list], 2)

\* the columns an entry adds to X_mm (GCCA_multi_modal 281-297)
EntryDim(e) == IF e.ndim \in {2, 3} THEN SampleSize(e) ELSE 0

TotalDim(list) == SumSeq([i \in 1..Len(list) |-> EntryDim(list[i])])

\* what eig(Dxx, Rxx), sorted by eigenvalue and made real, can be: dim linearly
\* independent columns, in any order
MmVecs(dim) == {[i \in 1..dim |-> IF i = j THEN -1 ELSE 1] : j \in 1..dim}

MmEigOutputs(dim) ==
    {FromCols(cols, dim) : cols \in {c \in [1..dim -> MmVecs(dim)] : \A i, j \in 1..dim : i # j => c[i] # c[j]}}

\* W_organize(W, datalist) (324-341): the rows of W are dealt out to the entries; a
\* 3-D entry reshapes its D*N rows to (N, D, K) and transposes them to (D, N, K)
RECURSIVE W_organize(_, _, _)
W_organize(W, list, dim_start) ==
    IF Len(list) = 0 THEN <<>>
    ELSE
    LET data == Head(list)
        K    == NCols(W)
    IN  IF data.ndim = 3
        THEN LET D == Len(data.rows[1])
                 N == Len(data.rows[1][1])
             IN  <<[ndim |-> 3,
                    w |-> [d \in 1..D |-> [n \in 1..N |-> [k \in 1..K |->
                              W[dim_start + (n - 1) * D + d][k]]]]]>>
                 \o W_organize(W, Tail(list), dim_start + D * N)
        ELSE LET D == Len(data.rows[1])
             IN  <<[ndim |-> 2, w |-> SubSeq(W, dim_start + 1, dim_start + D)]>>
                 \o W_organize(W, Tail(list), dim_start + D)

\* GCCA_multi_modal(datalist, n_components, rhos, regularization); W is what the
\* eigensolver returned for this call
GCCA_multi_modal(list, n, rhos_, W) ==
    IF Len(rhos_) < Len(list) THEN [status |-> "IndexError"]
    ELSE [status |-> "ok", Wlist |-> W_organize(ColsUpTo(W, n), list, 0)]

\* the number of weight columns of an entry's weights
WCols(W) == IF W.ndim = 3 THEN Len(W.w[1][1]) ELSE NCols(W.w)

\* X_trans of one entry for component k (lines 426-434): one column per subject of
\* a 3-D entry, one column for a 2-D entry
XTransCols(data, W, k) ==
    IF W.ndim = 3
    THEN [n \in 1..Len(W.w[1]) |->
            [tt \in 1..Len(data.rows) |->
                SumSeq([d \in 1..Len(W.w) |-> data.rows[tt][d][n] * W.w[d][n][k]])]]
    ELSE <<[tt \in 1..Len(data.rows) |->
                SumSeq([d \in 1..Len(W.w) |-> data.rows[tt][d] * W.w[d][k]])]>>

RECURSIVE XTransAll(_, _, _)
XTransAll(list, Wlist, k) ==
    IF Len(list) = 0 THEN <<>>
    ELSE XTransCols(Head(list), Head(Wlist), k) \o XTransAll(Tail(list), Tail(Wlist), k)

\* np.corrcoef(X_trans_all, rowvar=False)
CorrCoef(cols) == [i \in 1..Len(cols) |-> [j \in 1..Len(cols) |-> PearsonR(cols[i], cols[j])]]

\* avg_corr_coe_multi_modal(datalist, Wlist, n_components): per component, the
\* correlation matrix and N of np.sum(corr_mtx-np.eye(N))/N/(N-1)
avg_corr_coe_multi_modal(list, Wlist, n) ==
    IF \E i \in 1..Len(list) : WCols(Wlist[i]) < n THEN [status |-> "IndexError"]
    ELSE [status |-> "ok",
          avg_corr |-> [k \in 1..n |->
              LET cols == XTransAll(list, Wlist, k)
              IN  [N |-> Len(cols), corr_mtx |-> CorrCoef(cols)]]]

\* lines 477-478: the fit and the training score
mm_fit(ls, n, rhos_, W) ==
    IF ls.status # "ok" THEN [status |-> ls.status]
    ELSE LET g == GCCA_multi_modal(ls.train_list, n, rhos_, W)
         IN  IF g.status # "ok" THEN [status |-> g.status]
             ELSE LET a == avg_corr_coe_multi_modal(ls.train_list, g.Wlist, n)
                  IN  IF a.status # "ok" THEN [status |-> a.status]
                      ELSE [status |-> "ok", Wlist |-> g.Wlist, corr_train |-> a.avg_corr]

\* line 479: the held-out score, with the Wlist_train assigned in this iteration
mm_test(ls, fit, n, prevW) ==
    IF fit.status # "ok" THEN [status |-> fit.status]
    ELSE avg_corr_coe_multi_modal(ls.test_list, filters_for_test(prevW, fit.Wlist), n)

\* the eigensolver's possible results for the lists of an iteration
MmEigRuns(ls) == IF ls.status = "ok" THEN MmEigOutputs(TotalDim(ls.train_list)) ELSE {NoEig}

\* the modalities tried: an EEG stack of 2 subjects (1 channel) or a 2-channel EEG
\* matrix, then the stimulus as a column (T x 1) or as a 1-D array
MmEEG(T, ndim) ==
    [ndim |-> ndim,
     rows |-> [tt \in 1..T |-> IF ndim = 3 THEN <<<<CvChannel1[tt], CvChannel2[tt]>>>>
                                ELSE <<CvChannel1[tt], CvChannel2[tt]>>]]

MmSti(T, ndim) ==
    [ndim |-> ndim, rows |-> [tt \in 1..T |-> IF ndim = 2 THEN <<CvFeature[tt]>> ELSE CvFeature[tt]]]

\* filter lengths and component counts tried; the last asks for more components than columns
MmShapes == {[L |-> 1, n |-> 1], [L |-> 2, n |-> 2], [L |-> 1, n |-> 4]}

\* the state at the first line of cross_val_GCCA_multi_mod's loop
MmLoopEntry ==
    /\ pc = "loop"
    /\ idx = 0
    /\ corr_train = Zeros2(fold, n_components)
    /\ corr_test = Zeros2(fold, n_components)
    /\ Wlist_train = Unbound
    /\ iters = <<>>
    /\ cv_ret = NoRet

MmInputs ==
    /\ X = <<>>
    /\ heap = <<>>
    /\ ShuffleIdle
    /\ CanoIdle
    /\ EEG = EEGSignal(0, 2)
    /\ Sti = <<>>
    /\ splits = <<>>
    /\ V_A_train = NoneArr
    /\ V_B_train = NoneArr
    /\ fold \in CvFolds
    /\ \E shape \in MmShapes, T \in (2 * fold)..MaxCvT, e \in {2, 3}, s \in {1, 2} :
          /\ shape.L = 2 => (fold = 2 /\ T >= MaxCvT - 1)
          /\ datalist = <<MmEEG(T, e), MmSti(T, s)>>
          /\ L_timefilter = shape.L
          /\ n_components = shape.n

InitCvGCCA ==
    /\ op = "cross_val_GCCA_multi_mod"
    /\ MmInputs
    /\ signifi_level \in BOOLEAN
    /\ fs \in (IF signifi_level THEN CvRates ELSE {10})
    /\ rhos \in {<<1, 10>>, <<1>>}
    /\ SweepIdle
    /\ MmLoopEntry

\* one iteration of the fold loop of cross_val_GCCA_multi_mod (lines 472-479)
CrossValGCCAIter ==
    /\ op \in {"cross_val_GCCA_multi_mod", "rho_sweep"}
    /\ pc = "loop"
    /\ idx < fold
    /\ \E ls \in {mm_lists(datalist, L_timefilter, fold, idx + 1)} :
       \E W \in MmEigRuns(ls) :
       \E fit \in {mm_fit(ls, n_components, rhos, W)} :
       \E te \in {mm_test(ls, fit, n_components, Wlist_train)} :
          IF te.status = "ok"
          THEN /\ corr_train' = [corr_train EXCEPT ![idx + 1] = fit.corr_train]
               /\ corr_test' = [corr_test EXCEPT ![idx + 1] = te.avg_corr]
               /\ Wlist_train' = fit.Wlist
               /\ iters' = Append(iters, [train_list |-> ls.train_list, test_list |-> ls.test_list,
                                          Wlist |-> fit.Wlist])
               /\ idx' = idx + 1
               /\ pc' = IF idx + 1 = fold THEN "after_loop" ELSE "loop"
               /\ cv_ret' = cv_ret
          ELSE /\ pc' = "raised"
               /\ cv_ret' = [status |-> te.status]
               /\ UNCHANGED <<corr_train, corr_test, Wlist_train, iters, idx>>
    /\ UNCHANGED <<op, X, heap, n_components, fs, EEG, Sti, fold, splits, L_timefilter, signifi_level,
                   V_A_train, V_B_train, datalist, rhos, sweepVars, shuffleVars, canoVars>>

\* lines 480-483: permutation_test_multi_mod shuffles every entry of the last
\* test_list, then scores 5 components whatever n_components is and keeps topK of them
permutation_test_multi_mod_status(fs_, Wlist, topK) ==
    IF perm_block_len(fs_) = 0 THEN "ZeroDivisionError"
    ELSE IF \E i \in 1..Len(Wlist) : WCols(Wlist[i]) < 5 THEN "IndexError"
    ELSE IF topK > 5 THEN "ValueError"
    ELSE "ok"

\* lines 480-487: the permutation test if asked for, then the return of three values
cross_val_GCCA_multi_mod_end(signifi_level_, fs_, n, corr_train_, corr_test_, Wlist) ==
    LET st == IF signifi_level_ THEN permutation_test_multi_mod_status(fs_, Wlist, n) ELSE "ok"
    IN  IF st = "ok" THEN [status |-> "ok", value |-> <<corr_train_, corr_test_, Wlist>>]
        ELSE [status |-> st]

CrossValGCCAReturn ==
    /\ op = "cross_val_GCCA_multi_mod"
    /\ pc = "after_loop"
    /\ cv_ret' = cross_val_GCCA_multi_mod_end(signifi_level, fs, n_components,
                                              corr_train, corr_test, Wlist_train)
    /\ pc' = IF cv_ret'.status = "ok" THEN "done" ELSE "raised"
    /\ UNCHANGED <<op, X, heap, n_components, fs, splitVars, L_timefilter, signifi_level,
                   corr_train, corr_test, V_A_train, V_B_train, iters, mmVars, sweepVars,
                   shuffleVars, canoVars>>

NextCv == CrossValCCAIter \/ CrossValCCAReturn \/ CrossValGCCAIter \/ CrossValGCCAReturn

InitCv == InitCvCCA \/ InitCvGCCA

SpecCv == InitCv /\ [][NextCv]_vars

----------------------------------------------------------------------------
(* The folds of the cross-validation, written from the indices.            *)

\* the samples of fold i (1-based), lt samples long
FoldRows(rows, lt, i) == [tt \in 1..lt |-> rows[(i - 1) * lt + tt]]

\* the samples outside fold i, in order
OutsideRows(rows, lt, i) ==
    [tt \in 1..(Len(rows) - lt) |-> IF tt <= (i - 1) * lt THEN rows[tt] ELSE rows[tt + lt]]

\* the causal design matrix of x: entry (t, k) is x[t-k], 0 before the first sample
ConvOf(x, L) == [tt \in 1..Len(x) |-> [k \in 1..L |-> IF tt - k + 1 >= 1 THEN x[tt - k + 1] ELSE 0]]

\* the k-th correlation of data X_ and Y_ seen through filters A and B
CorrThrough(X_, Y_, A, B, k) == PearsonR(Col(MatMul(X_, A), k), Col(MatMul(Y_, B), k))

\* iteration i of cross_val_CCA did what the claim says
CcaFoldOk(i) ==
    LET lt == Len(EEG.rows) \div fold
        it == iters[i]
        EEG_test  == FoldRows(EEG.rows, lt, i)
        EEG_train == OutsideRows(EEG.rows, lt, i)
        Y_test    == ConvOf(FoldRows(Sti, lt, i), L_timefilter)
        Y_train   == ConvOf(OutsideRows(Sti, lt, i), L_timefilter)
    IN  /\ it.EEG_train = EEG_train
        /\ it.Sti_train = OutsideRows(Sti, lt, i)
        /\ it.EEG_test = EEG_test
        /\ it.Sti_test = FoldRows(Sti, lt, i)
        /\ "eig_sorted" \in it.fit_called
        /\ it.test_called \cap Estimators = {}
        /\ Len(corr_test[i]) = n_components
        /\ Len(corr_train[i]) = n_components
        /\ \A k \in 1..n_components :
              /\ corr_test[i][k] = CorrThrough(EEG_test, Y_test, it.V_A, it.V_B, k)
              /\ corr_train[i][k] = CorrThrough(EEG_train, Y_train, it.V_A, it.V_B, k)

\* the entry of modality m that iteration i must train on (test = FALSE) or score on
MmEntryOf(m, i, test) ==
    LET data == datalist[m]
        lt   == Len(data.rows) \div fold
        rows == IF test THEN FoldRows(data.rows, lt, i) ELSE OutsideRows(data.rows, lt, i)
    IN  IF m = 1 THEN [ndim |-> data.ndim, rows |-> rows]
        ELSE [ndim |-> 2,
              rows |-> ConvOf([tt \in 1..Len(rows) |-> IF data.ndim = 1 THEN rows[tt] ELSE rows[tt][1]],
                              L_timefilter)]

\* iteration i of cross_val_GCCA_multi_mod did what the claim says
GccaFoldOk(i) ==
    LET it == iters[i]
        train_list == [m \in 1..Len(datalist) |-> MmEntryOf(m, i, FALSE)]
        test_list  == [m \in 1..Len(datalist) |-> MmEntryOf(m, i, TRUE)]
    IN  /\ it.train_list = train_list
        /\ it.test_list = test_list
        /\ Len(corr_test[i]) = n_components
        /\ Len(corr_train[i]) = n_components
        /\ corr_test[i] = avg_corr_coe_multi_modal(test_list, it.Wlist, n_components).avg_corr
        /\ corr_train[i] = avg_corr_coe_multi_modal(train_list, it.Wlist, n_components).avg_corr

InCrossVal == op \in {"cross_val_CCA", "cross_val_GCCA_multi_mod"}

(* C6: in cross_val_CCA and cross_val_GCCA_multi_mod, every completed      *)
(* iteration idx fitted its filters on the train remainder of fold idx+1   *)
(* only, row idx of corr_test is the test-mode score of that fold's test   *)
(* slice under the filters fitted in that same iteration, row idx of       *)
(* corr_train holds that iteration's training correlations, and both       *)
(* arrays have fold rows of n_components columns (rows of iterations not   *)
(* yet run are still zero).                                                *)
CrossValFoldsSeparate ==
    InCrossVal =>
        /\ Len(iters) = idx
        /\ Len(corr_train) = fold
        /\ Len(corr_test) = fold
        /\ \A i \in (idx + 1)..fold :
              /\ corr_train[i] = [k \in 1..n_components |-> Zero]
              /\ corr_test[i] = [k \in 1..n_components |-> Zero]
        /\ \A i \in 1..idx :
              IF op = "cross_val_CCA" THEN CcaFoldOk(i) ELSE GccaFoldOk(i)
        /\ pc = "done" => idx = fold

\* cross_val_CCA returned after three folds whose fits and held-out scores differ
CrossValFoldsWitness ==
    /\ op = "cross_val_CCA"
    /\ pc = "done"
    /\ fold = 3
    /\ iters[1].V_A # iters[2].V_A
    /\ iters[2].V_B # iters[3].V_B
    /\ corr_test[1][1].sgn # corr_test[2][1].sgn
    /\ corr_test[2][1].sgn * corr_test[3][1].sgn = -1
    /\ cv_ret.value[2] = corr_test

\* cross_val_GCCA_multi_mod returned after two folds whose fits and held-out scores differ
CrossValGccaReached ==
    /\ op = "cross_val_GCCA_multi_mod"
    /\ pc = "done"
    /\ n_components = 2
    /\ iters[1].Wlist # iters[2].Wlist
    /\ corr_test[1] # corr_test[2]
    /\ cv_ret.value[2] = corr_test

----------------------------------------------------------------------------
(* rho_sweep (utils.py 571-580).                                           *)

\* a correlation in sixteenths, rounded towards 0 (the model's precision for
\* comparing scores)
Root16(r) ==
    r.sgn * (CHOOSE k \in 0..16 : k * k * r.den <= 256 * r.num /\ (k + 1) * (k + 1) * r.den > 256 * r.num)

\* np.sum(corr_mtx-np.eye(N)) in sixteenths
OffDiagSum16(c) ==
    SumSeq([i \in 1..c.N |-> SumSeq([j \in 1..c.N |->
        Root16(c.corr_mtx[i][j]) - (IF i = j THEN 16 ELSE 0)])])

HasNaN(c) == \E i, j \in 1..c.N : IsNaN(c.corr_mtx[i][j])

\* np.average(corr_test, axis=0)[0], a fraction or NaN
avg_first(corr_test_) ==
    [nan |-> \E f \in 1..Len(corr_test_) : HasNaN(corr_test_[f][1]),
     num |-> SumSeq([f \in 1..Len(corr_test_) |->
                 IF HasNaN(corr_test_[f][1]) THEN 0 ELSE OffDiagSum16(corr_test_[f][1])]),
     den |-> 16 * corr_test_[1][1].N * (corr_test_[1][1].N - 1) * Len(corr_test_)]

\* avg_corr_test[0] > corr_best (False for NaN, True against -inf)
score_gt(a, best) ==
    IF a.nan THEN FALSE
    ELSE IF best = NegInf THEN TRUE
    ELSE IF best.nan THEN FALSE
    ELSE a.num * best.den > best.num * a.den

\* how many names the assignment of line 575 unpacks the returned tuple into
unpack_targets == 2

SweepLists == {<<>>, <<0>>, <<1, 0>>, <<0, 2, 1>>}

InitSweep ==
    /\ op = "rho_sweep"
    /\ pc = "sweep"
    /\ MmInputs
    /\ fs = 10
    /\ signifi_level = FALSE
    /\ rhos = <<>>
    /\ sweep_list \in SweepLists
    /\ sweep_pos = 0
    /\ corr_best = NegInf
    /\ rhos_best = Unbound
    /\ sweep_scores = <<>>
    /\ idx = 0
    /\ corr_train = <<>>
    /\ corr_test = <<>>
    /\ Wlist_train = Unbound
    /\ iters = <<>>
    /\ cv_ret = NoRet

\* lines 573-575 up to the fold loop of the call, or line 580 when the sweep is over
RhoSweepNext ==
    /\ op = "rho_sweep"
    /\ pc = "sweep"
    /\ UNCHANGED <<op, X, heap, n_components, fs, EEG, Sti, fold, splits, L_timefilter, signifi_level,
                   V_A_train, V_B_train, datalist, sweep_list, shuffleVars, canoVars>>
    /\ IF sweep_pos < Len(sweep_list)
       THEN /\ rhos' = <<1, 10 ^ sweep_list[sweep_pos + 1]>>
            /\ sweep_pos' = sweep_pos + 1
            /\ pc' = "loop"
            /\ idx' = 0
            /\ corr_train' = Zeros2(fold, n_components)
            /\ corr_test' = Zeros2(fold, n_components)
            /\ Wlist_train' = Unbound
            /\ iters' = <<>>
            /\ cv_ret' = NoRet
            /\ UNCHANGED <<corr_best, rhos_best, sweep_scores>>
       ELSE /\ pc' = IF rhos_best = Unbound THEN "raised" ELSE "done"
            /\ cv_ret' = IF rhos_best = Unbound THEN [status |-> "UnboundLocalError"]
                         ELSE [status |-> "ok", value |-> rhos_best]
            /\ UNCHANGED <<rhos, sweep_pos, idx, corr_train, corr_test, Wlist_train, iters,
                           corr_best, rhos_best, sweep_scores>>

\* the call of line 575 returns and its result is unpacked; lines 576-579
RhoSweepUnpack ==
    /\ op = "rho_sweep"
    /\ pc = "after_loop"
    /\ LET res == cross_val_GCCA_multi_mod_end(signifi_level, fs, n_components,
                                               corr_train, corr_test, Wlist_train)
       IN  IF res.status # "ok"
           THEN /\ pc' = "raised"
                /\ cv_ret' = res
                /\ UNCHANGED <<corr_best, rhos_best, sweep_scores>>
           ELSE IF Len(res.value) # unpack_targets
           THEN /\ pc' = "raised"
                /\ cv_ret' = [status |-> "ValueError"]
                /\ UNCHANGED <<corr_best, rhos_best, sweep_scores>>
           ELSE LET avg_corr_test0 == avg_first(res.value[2])
                    better == score_gt(avg_corr_test0, corr_best)
                IN  /\ pc' = "sweep"
                    /\ cv_ret' = cv_ret
                    /\ rhos_best' = IF better THEN rhos ELSE rhos_best
                    /\ corr_best' = IF better THEN avg_corr_test0 ELSE corr_best
                    /\ sweep_scores' = Append(sweep_scores, [rhos |-> rhos, score |-> avg_corr_test0])
    /\ UNCHANGED <<op, X, heap, n_components, fs, splitVars, L_timefilter, signifi_level,
                   corr_train, corr_test, V_A_train, V_B_train, iters, mmVars,
                   sweep_list, sweep_pos, shuffleVars, canoVars>>

NextSweep == RhoSweepNext \/ CrossValGCCAIter \/ RhoSweepUnpack

SpecSweep == InitSweep /\ [][NextSweep]_vars

RhoSweepEnded == op = "rho_sweep" /\ pc \in {"done", "raised"}

(* C9: for every non-empty sweep_list, rho_sweep runs the cross-validation *)
(* once per sweep value i with rhos = [1, 10**i] and returns the rhos      *)
(* whose first-component held-out correlation, averaged over the folds, is *)
(* the maximum over the sweep.                                             *)
RhoSweepReturnsArgmax ==
    (RhoSweepEnded /\ sweep_list # <<>>) =>
        /\ pc = "done"
        /\ Len(sweep_scores) = Len(sweep_list)
        /\ \A j \in 1..Len(sweep_list) : sweep_scores[j].rhos = <<1, 10 ^ sweep_list[j]>>
        /\ \E j \in 1..Len(sweep_list) :
              /\ cv_ret.value = sweep_scores[j].rhos
              /\ \A j2 \in 1..Len(sweep_list) : ~score_gt(sweep_scores[j2].score, sweep_scores[j].score)

----------------------------------------------------------------------------
(* GCCA (utils.py 215-264) and rescale (373-383).                          *)
(* A weight is kept as [w, s]: the number w / sqrt(s), where s is One or   *)
(* the scale a call of rescale divided by.                                 *)

One == [est |-> "one"]

Weight(w) == [w |-> w, s |-> One]

\* element (i, j, k) of a 3-D array, 1-based, as an index into its buffer
Addr3(a, i, j, k) == 1 + (i - 1) * a.strides[1] + (j - 1) * a.strides[2] + (k - 1) * a.strides[3]

\* the values of a 3-D array
Read3(h, a) ==
    [i \in 1..a.shape[1] |-> [j \in 1..a.shape[2] |-> [k \in 1..a.shape[3] |->
        h[a.buf][Addr3(a, i, j, k)]]]]

\* np.transpose(a, (1, 0, 2)): a view with the first two axes exchanged
Transpose102(a) ==
    [buf |-> a.buf,
     shape |-> <<a.shape[2], a.shape[1], a.shape[3]>>,
     strides |-> <<a.strides[2], a.strides[1], a.strides[3]>>]

\* whether np.reshape can merge the first two axes of a without copying: one of
\* them has one element, or stepping the first is stepping the second shape[2] times
merges_in_place(a) ==
    \/ a.shape[1] = 1
    \/ a.shape[2] = 1
    \/ a.strides[1] = a.shape[2] * a.strides[2]

\* np.reshape(a, [rows, cols]) of a 3-D array a whose last axis has cols elements (or
\* whose size is not rows*cols): a view of a's buffer when the first two axes merge in
\* place, else a C-ordered copy in a new buffer
Reshape2(h, a, rows, cols) ==
    IF a.shape[1] * a.shape[2] * a.shape[3] # rows * cols
    THEN [status |-> "ValueError", heap |-> h]
    ELSE IF merges_in_place(a)
    THEN [status |-> "ok", heap |-> h,
          arr |-> [buf |-> a.buf, shape |-> <<rows, cols>>,
                   strides |-> <<IF a.shape[2] = 1 THEN a.strides[1] ELSE a.strides[2], a.strides[3]>>]]
    ELSE [status |-> "ok",
          heap |-> Append(h, [e \in 1..(rows * cols) |->
                      h[a.buf][Addr3(a, ((e - 1) \div (a.shape[2] * cols)) + 1,
                                        (((e - 1) \div cols) % a.shape[2]) + 1,
                                        ((e - 1) % cols) + 1)]]),
          arr |-> CArr(Len(h) + 1, <<rows, cols>>)]

\* np.reshape(W, (N, D, -1)) of a 2-D array: splitting the first axis never copies
Reshape3(W, N, D) ==
    [buf |-> W.buf, shape |-> <<N, D, W.shape[2]>>,
     strides |-> <<D * W.strides[1], W.strides[1], W.strides[2]>>]

\* T*(T-1) times np.cov of the columns of [X1 X2 ... XN] (column (n-1)*D + d is
\* channel d of subject n)
Scatter(X_stack) ==
    LET T == Len(X_stack)
        D == Len(X_stack[1])
        N == Len(X_stack[1][1])
        col(c) == [tt \in 1..T |-> X_stack[tt][((c - 1) % D) + 1][((c - 1) \div D) + 1]]
    IN  [a \in 1..(N * D) |-> [b \in 1..(N * D) |->
            T * SumSeq([tt \in 1..T |-> col(a)[tt] * col(b)[tt]]) - SumSeq(col(a)) * SumSeq(col(b))]]

\* scales[n] of rescale for component i: w_n^T Dxx_nn w_n, for the weights w / sqrt(s)
\* of subject n; dividing by its root leaves w / sqrt(w^T Dxx_nn w)
scale_of(S, T, reg, Wv, n, i) ==
    LET D == Len(Wv)
        q == SumSeq([d \in 1..D |-> SumSeq([e \in 1..D |->
                 Wv[d][n][i].w * Wv[e][n][i].w * S[(n - 1) * D + d][(n - 1) * D + e]])])
        g == GCD(Abs(q), T * (T - 1))
    IN  IF reg # "lwcov" /\ q = T * (T - 1) THEN One
        ELSE [est |-> reg, num |-> q \div g, den |-> (T * (T - 1)) \div g]

\* rescale(W, Dxx): W[:,:,i] = W[:,:,i]/np.sqrt(scales) writes into W's own buffer
rescale(h, W, S, T, reg) ==
    LET Wv == Read3(h, W)
        cells == (1..W.shape[1]) \X (1..W.shape[2]) \X (1..W.shape[3])
    IN  [h EXCEPT ![W.buf] =
            [e \in 1..Len(h[W.buf]) |->
                IF \E c \in cells : Addr3(W, c[1], c[2], c[3]) = e
                THEN LET c == CHOOSE c \in cells : Addr3(W, c[1], c[2], c[3]) = e
                     IN  [w |-> Wv[c[1]][c[2]][c[3]].w, s |-> scale_of(S, T, reg, Wv, c[2], c[3])]
                ELSE h[W.buf][e]]]

\* the layouts eigh can return its eigenvector matrix in
Layouts == {"C", "F"}

\* the eigenvector matrix M (rows x cols) as a new array of the heap
NewMatrix(h, M, layout) ==
    LET rows == Len(M)
        cols == NCols(M)
    IN  IF layout = "C"
        THEN [heap |-> Append(h, [e \in 1..(rows * cols) |->
                          Weight(M[((e - 1) \div cols) + 1][((e - 1) % cols) + 1])]),
              arr |-> [buf |-> Len(h) + 1, shape |-> <<rows, cols>>, strides |-> <<cols, 1>>]]
        ELSE [heap |-> Append(h, [e \in 1..(rows * cols) |->
                          Weight(M[((e - 1) % rows) + 1][((e - 1) \div rows) + 1])]),
              arr |-> [buf |-> Len(h) + 1, shape |-> <<rows, cols>>, strides |-> <<1, rows>>]]

\* GCCA(X_stack, n_components, regularization, W_train) on heap h; eigW and layout
\* are what eigh(Dxx, Rxx, subset_by_index=[0, n_components-1]) returns (train mode)
GCCA(X_stack, n, reg, W_train_, h, eigW, layout) ==
    LET T == Len(X_stack)
        D == Len(X_stack[1])
        N == Len(X_stack[1][1])
        S == Scatter(X_stack)
        test == ~IsNone(W_train_)
        raise(e) == [status |-> e, heap |-> h, solved |-> ~test]
        W == IF test THEN Reshape2(h, Transpose102(W_train_), N * D, n)
             ELSE IF n > N * D THEN [status |-> "ValueError", heap |-> h]
             ELSE [status |-> "ok"] @@ NewMatrix(h, ColsUpTo(eigW, n), layout)
    IN  IF W.status # "ok" THEN raise(W.status)
        ELSE LET W_stack == Transpose102(Reshape3(W.arr, N, D))
                 h2 == rescale(W.heap, W_stack, S, T, reg)
             IN  [status |-> "ok", heap |-> h2, solved |-> ~test,
                  lam |-> [W |-> Mat(W.heap, W.arr), reg |-> reg],
                  W_stack |-> W_stack,
                  avg_corr |-> [W_scaled |-> Read3(h2, W_stack), reg |-> reg]]

\* the stacks tried, T x D x N: one or two channels of two subjects
GccaData ==
    { <<<<<<1, 2>>>>, <<<<2, 1>>>>, <<<<4, 3>>>>>>,
      <<<<<<2, 1>>>>, <<<<5, 2>>>>, <<<<3, 6>>>>>>,
      <<<<<<1, 2>>, <<0, 1>>>>, <<<<2, 1>>, <<3, 0>>>>, <<<<4, 3>>, <<1, 5>>>>, <<<<0, 2>>, <<2, 2>>>>>>,
      <<<<<<2, 0>>, <<1, 1>>>>, <<<<1, 3>>, <<0, 2>>>>, <<<<3, 1>>, <<4, 0>>>>, <<<<1, 2>>, <<2, 5>>>>>> }

ShapeOf(X_stack) == <<Len(X_stack[1]), Len(X_stack[1][1])>>

\* a D x N x K array the caller built itself (C-contiguous) from the columns of M
CallerWeights(M, D, N, K) ==
    [e \in 1..(D * N * K) |->
        Weight(M[(((e - 1) \div K) % N) * D + ((e - 1) \div (N * K)) + 1][((e - 1) % K) + 1])]

InitGcca ==
    /\ op = "GCCA"
    /\ pc = "start"
    /\ SplitIdle
    /\ ShuffleIdle
    /\ CvIdle
    /\ fs = 10
    /\ Y = <<>>
    /\ V_A = NoneArr
    /\ V_B = NoneArr
    /\ frame = NoFrame
    /\ ret = NoRet
    /\ train_ret = NoRet
    /\ X \in GccaData
    /\ n_components \in 1..2
    /\ regularization \in Regularizations
    /\ \/ /\ heap = <<>>
          /\ W_train = NoneArr
       \/ \E M \in MmEigOutputs(ShapeOf(X)[1] * ShapeOf(X)[2]), K \in {n_components, n_components + 1} :
             /\ K <= NCols(M)
             /\ heap = <<CallerWeights(M, ShapeOf(X)[1], ShapeOf(X)[2], K)>>
             /\ W_train = CArr(1, <<ShapeOf(X)[1], ShapeOf(X)[2], K>>)
    /\ W_before = <<>>
    /\ gcca_ret = NoRet

\* what a call hands back to the caller
GccaRetOf(g) ==
    IF g.status = "ok"
    THEN [status |-> "ok", solved |-> g.solved, lam |-> g.lam, W_stack |-> g.W_stack, avg_corr |-> g.avg_corr]
    ELSE [status |-> g.status, solved |-> g.solved]

\* the caller fits: GCCA(X, n_components, regularization)
GccaFit ==
    /\ op = "GCCA"
    /\ pc = "start"
    /\ IsNone(W_train)
    /\ \E eigW \in MmEigOutputs(ShapeOf(X)[1] * ShapeOf(X)[2]), layout \in Layouts :
          LET g == GCCA(X, n_components, regularization, NoneArr, heap, eigW, layout)
          IN  /\ heap' = g.heap
              /\ gcca_ret' = GccaRetOf(g)
              /\ pc' = IF g.status = "ok" THEN "fitted" ELSE "raised"
    /\ UNCHANGED <<op, X, n_components, fs, Y, V_A, V_B, frame, ret, train_ret,
                   W_train, regularization, W_before, splitVars, shuffleVars, cvVars>>

\* the caller scores held-out data with weights it holds, its own array or the W_stack
\* the fit returned: GCCA(X_test, n_components, regularization, W_train=W)
GccaTest ==
    /\ op = "GCCA"
    /\ \/ pc = "start" /\ ~IsNone(W_train) /\ W_train' = W_train
       \/ pc = "fitted" /\ W_train' = gcca_ret.W_stack
    /\ \E X_test \in {d \in GccaData : ShapeOf(d) = ShapeOf(X)} :
          LET g == GCCA(X_test, n_components, regularization, W_train', heap, NoEig, "C")
          IN  /\ X' = X_test
              /\ W_before' = Read3(heap, W_train')
              /\ heap' = g.heap
              /\ gcca_ret' = GccaRetOf(g)
              /\ pc' = IF g.status = "ok" THEN "tested" ELSE "raised"
    /\ UNCHANGED <<op, n_components, fs, Y, V_A, V_B, frame, ret, train_ret,
                   regularization, splitVars, shuffleVars, cvVars>>

NextGcca == GccaFit \/ GccaTest

SpecGcca == InitGcca /\ [][NextGcca]_vars

GccaTested == op = "GCCA" /\ pc = "tested"

(* C8: a test-mode GCCA (W_train supplied) solves no eigenproblem and does *)
(* not mutate the caller's W_train: for every D >= 1 and N >= 2 the values *)
(* of W_train after the call equal its values before the call.             *)
GccaTestKeepsWTrain ==
    GccaTested =>
        /\ ~gcca_ret.solved
        /\ Read3(heap, W_train) = W_before

----------------------------------------------------------------------------
(* convolution_mtx and block_Hankel called on their own.                   *)

\* longest signal and longest filter handed to convolution_mtx
MaxConvT == 5

MaxLag == 5

\* the value of the causal argument when the caller leaves it out (lines 49 and 83)
convolution_mtx_default == TRUE

block_Hankel_default == FALSE

\* the causal argument a call ends up with
causal_of(arg, default) == IF arg = "omitted" THEN default ELSE arg = "True"

CausalArgs == {"omitted", "True", "False"}

\* the signals tried: samples that differ from each other and from the padding 0
ConvSignals(T) == {[tt \in 1..T |-> tt], [tt \in 1..T |-> 2 * (T - tt) + 1]}

\* block_Hankel(X, L, causal) (83-93): one convolution matrix per column of X, side
\* by side; the first column whose matrix cannot be built raises
block_Hankel(X_, L, causal) ==
    LET Hankel_list == [i \in 1..NCols(X_) |-> convolution_mtx(L, Col(X_, i), causal)]
    IN  IF \E i \in 1..NCols(X_) : Hankel_list[i].status # "ok"
        THEN [status |-> Hankel_list[CHOOSE i \in 1..NCols(X_) :
                             /\ Hankel_list[i].status # "ok"
                             /\ \A j \in 1..(i - 1) : Hankel_list[j].status = "ok"].status,
              M |-> <<>>]
        ELSE [status |-> "ok",
              M |-> [tt \in 1..Len(X_) |->
                        [c \in 1..(NCols(X_) * L) |->
                            Hankel_list[((c - 1) \div L) + 1].M[tt][((c - 1) % L) + 1]]]]

InitConv ==
    /\ pc = "start"
    /\ X = <<>>
    /\ heap = <<>>
    /\ n_components = 1
    /\ fs = 10
    /\ SplitIdle
    /\ CanoIdle
    /\ CvIdle
    /\ t = [num |-> 1, den |-> 10]
    /\ X_shuffled = <<>>
    /\ out = [status |-> "none"]
    /\ \E T \in 1..MaxConvT, L \in 1..MaxLag, c \in CausalArgs :
          \/ /\ op = "convolution_mtx"
             /\ \E x \in ConvSignals(T) : args = [L_timefilter |-> L, x |-> x, causal |-> c]
          \/ /\ op = "block_Hankel"
             /\ \E D \in 1..2 :
                   args = [L |-> L, causal |-> c,
                           X |-> [tt \in 1..T |-> [d \in 1..D |-> 10 * d + tt]]]

ConvolutionMtx ==
    /\ op = "convolution_mtx"
    /\ pc = "start"
    /\ out' = convolution_mtx(args.L_timefilter, args.x, causal_of(args.causal, convolution_mtx_default))
    /\ pc' = IF out'.status = "ok" THEN "done" ELSE "raised"
    /\ UNCHANGED <<op, args, X, heap, n_components, fs, t, X_shuffled, splitVars, canoVars, cvVars>>

BlockHankel ==
    /\ op = "block_Hankel"
    /\ pc = "start"
    /\ out' = block_Hankel(args.X, args.L, causal_of(args.causal, block_Hankel_default))
    /\ pc' = IF out'.status = "ok" THEN "done" ELSE "raised"
    /\ UNCHANGED <<op, args, X, heap, n_components, fs, t, X_shuffled, splitVars, canoVars, cvVars>>

NextConv == ConvolutionMtx \/ BlockHankel

SpecConv == InitConv /\ [][NextConv]_vars

ConvEnded == op \in {"convolution_mtx", "block_Hankel"} /\ pc \in {"done", "raised"}

\* the filter length and the causal flag of the call that ended
ConvLag == IF op = "convolution_mtx" THEN args.L_timefilter ELSE args.L

ConvCausal ==
    IF args.causal = "omitted" THEN op = "convolution_mtx" ELSE args.causal = "True"

(* C11: with causal=False convolution_mtx fails with an assertion error    *)
(* and returns no matrix for every even filter length and succeeds for     *)
(* every odd one; with causal=True it accepts every length >= 1.           *)
(* block_Hankel, whose default is causal=False, fails for every even L     *)
(* unless causal=True is passed.                                           *)
ConvEvenLagFails ==
    ConvEnded =>
        IF ~ConvCausal /\ ConvLag % 2 = 0
        THEN pc = "raised" /\ out.status = "AssertionError" /\ out.M = <<>>
        ELSE pc = "done" /\ out.status = "ok" /\ Len(out.M) > 0

\* block_Hankel called without the causal argument and an even L raised
ConvEvenLagWitness ==
    /\ op = "block_Hankel"
    /\ pc = "raised"
    /\ args.causal = "omitted"
    /\ args.L = 4
    /\ out.status = "AssertionError"

\* the sample of x that entry (t, k) of the matrix must hold, 0-based, or 0
ConvEntry(x, tt, k, lag, causal) ==
    LET i == IF causal THEN tt - k ELSE tt + ((lag - 1) \div 2) - k
    IN  IF 0 <= i /\ i <= Len(x) - 1 THEN x[i + 1] ELSE 0

(* C12: for a signal x of length T >= 1 and a filter length lag >= 1,      *)
(* convolution_mtx returns a matrix of exactly T rows and lag columns      *)
(* whose entry (t, k) is x[t-k] in causal mode and x[t + (lag-1)/2 - k] in *)
(* non-causal mode (lag odd) when that index lies in 0..T-1, 0 otherwise.  *)
ConvMatrixEntries ==
    (op = "convolution_mtx" /\ pc = "done") =>
        /\ Len(out.M) = Len(args.x)
        /\ \A tt \in 1..Len(out.M) :
              /\ Len(out.M[tt]) = args.L_timefilter
              /\ \A k \in 1..args.L_timefilter :
                    out.M[tt][k] = ConvEntry(args.x, tt - 1, k - 1, args.L_timefilter, ConvCausal)

\* a non-causal matrix of 3 taps: the first row holds x(1), x(0) and a padded 0,
\* the last row a padded 0 for the sample after the end
ConvMatrixWitness ==
    /\ op = "convolution_mtx"
    /\ pc = "done"
    /\ args.causal = "False"
    /\ args.L_timefilter = 3
    /\ Len(args.x) = 4
    /\ out.M[1] = <<args.x[2], args.x[1], 0>>
    /\ out.M[4] = <<0, args.x[4], args.x[3]>>

----------------------------------------------------------------------------
(* eig_sorted called on its own.                                           *)

\* largest matrix handed to eig_sorted
MaxEig == 3

\* the real eigenvalues the decompositions tried may hold (repeated ones included)
EigValues == {-1, 0, 2}

\* what LA.eig(X) returns for an n x n matrix: the eigenvalues in LAPACK's order
\* and a matrix whose column j is the eigenvector of the j-th eigenvalue;
\* entry (i, j) is written 10*j + i, so that every column is recognisable
LAeig(n) ==
    {[lam |-> l, V |-> [i \in 1..n |-> [j \in 1..n |-> 10 * j + i]]] :
        l \in [1..n -> EigValues]}

\* np.argsort(keys): an index order that puts the keys in ascending order; the
\* order among equal keys is whatever the unstable default sort produces
argsort(keys) ==
    {p \in Perms(Len(keys)) :
        \A i, j \in 1..Len(keys) : i < j => keys[p[i]] <= keys[p[j]]}

descending_keys_unnegated(lam) == lam

\* -lam (line 24)
descending_keys(lam) == [i \in 1..Len(lam) |-> -lam[i]]

\* the index orders idx that lines 23-28 can produce
eig_idx(lam, option) ==
    IF option = "descending" THEN argsort(descending_keys(lam))
    ELSE IF option = "ascending" THEN argsort(lam)
    ELSE {[i \in 1..Len(lam) |-> i]}

\* lines 30-32 for one idx: lam[idx], V[:, idx]
eig_sorted(e, idx_) ==
    [lam |-> [j \in 1..Len(idx_) |-> e.lam[idx_[j]]],
     V   |-> [i \in 1..Len(e.V) |-> [j \in 1..Len(idx_) |-> e.V[i][idx_[j]]]]]

\* the option argument: left out (the default 'descending'), one of the two sort
\* orders, or any other string
EigOptions == {"omitted", "descending", "ascending", "other"}

option_of(arg) == IF arg = "omitted" THEN "descending" ELSE arg

InitEig ==
    /\ op = "eig_sorted"
    /\ pc = "start"
    /\ X = <<>>
    /\ heap = <<>>
    /\ n_components = 1
    /\ fs = 10
    /\ SplitIdle
    /\ CanoIdle
    /\ CvIdle
    /\ t = [num |-> 1, den |-> 10]
    /\ X_shuffled = <<>>
    /\ out = [status |-> "none"]
    /\ \E n \in 1..MaxEig : \E e \in LAeig(n) : args = [eig |-> e, done |-> {}]

\* one more call eig_sorted(X, option) on the same matrix X
EigSorted ==
    /\ op = "eig_sorted"
    /\ pc \in {"start", "called"}
    /\ \E o \in EigOptions \ args.done :
          /\ \E idx_ \in eig_idx(args.eig.lam, option_of(o)) :
                out' = [status |-> "ok",
                        res |-> [q \in args.done \cup {o} |->
                                    IF q = o THEN eig_sorted(args.eig, idx_) ELSE out.res[q]]]
          /\ args' = [args EXCEPT !.done = @ \cup {o}]
    /\ pc' = "called"
    /\ UNCHANGED <<op, X, heap, n_components, fs, t, X_shuffled, splitVars, canoVars, cvVars>>

NextEig == EigSorted

SpecEig == InitEig /\ [][NextEig]_vars

Reverse(s) == [i \in 1..Len(s) |-> s[Len(s) + 1 - i]]

\* the column of LA.eig's matrix that column j of the returned matrix is
EigColumnOf(r, j) ==
    CHOOSE c \in 1..Len(args.eig.lam) : Col(r.V, j) = Col(args.eig.V, c)

(* C13: for a matrix with real eigenvalues the eigenvalue sequences that   *)
(* eig_sorted returns with 'ascending' and with 'descending' are exact     *)
(* reverses of each other, and in every result, the unsorted one included, *)
(* column j of the eigenvector matrix is the eigenvector the decomposition *)
(* paired with the j-th returned eigenvalue.                               *)
EigSortedReverses ==
    (op = "eig_sorted" /\ pc = "called") =>
        /\ {"ascending", "descending"} \subseteq args.done =>
              out.res["ascending"].lam = Reverse(out.res["descending"].lam)
        /\ {"ascending", "omitted"} \subseteq args.done =>
              out.res["ascending"].lam = Reverse(out.res["omitted"].lam)
        /\ \A o \in args.done :
              /\ Len(out.res[o].lam) = Len(args.eig.lam)
              /\ NCols(out.res[o].V) = Len(args.eig.lam)
              /\ \A j \in 1..Len(args.eig.lam) :
                    /\ \E c \in 1..Len(args.eig.lam) : Col(out.res[o].V, j) = Col(args.eig.V, c)
                    /\ out.res[o].lam[j] = args.eig.lam[EigColumnOf(out.res[o], j)]
        /\ "ascending" \in args.done =>
              \A j \in 1..(Len(args.eig.lam) - 1) :
                  out.res["ascending"].lam[j] <= out.res["ascending"].lam[j + 1]

\* both orders were asked of a 3 x 3 matrix with a repeated eigenvalue that LA.eig
\* returned in neither order
EigSortedWitness ==
    /\ op = "eig_sorted"
    /\ pc = "called"
    /\ {"ascending", "descending", "other"} \subseteq args.done
    /\ args.eig.lam = <<0, 2, 0>>
    /\ out.res["ascending"].lam = <<0, 0, 2>>
    /\ out.res["descending"].lam = <<2, 0, 0>>
    /\ out.res["other"].lam = <<0, 2, 0>>

----------------------------------------------------------------------------
\* cross_val_CCA got through its fold loop and was asked for the significance level
PermTestReached ==
    op = "cross_val_CCA" /\ signifi_level /\ idx = fold /\ pc \in {"done", "raised"}

(* C15 (as stated): in cross_val_CCA with signifi_level, for every filter  *)
(* length and sampling rate the permutation test builds the shuffled       *)
(* design matrix with as many columns as V_B_train has rows, the filter    *)
(* length of the training, so that conv_mtx_shuffled @ V_B is defined and  *)
(* the trials yield their rows of correlations.                            *)
PermTestDimsAgree ==
    PermTestReached =>
        /\ V_B_train.shape[1] = L_timefilter
        /\ perm_L_timefilter(fs) = V_B_train.shape[1]
        /\ cv_ret.status = "ok"

----------------------------------------------------------------------------
(* split_multi_mod called on its own.                                      *)

\* most entries of a datalist, and longest entry
MaxMods == 3

MaxModT == 4

\* entry number m of a datalist: T samples as an array of ndim dimensions (T, (T, 1)
\* or (T, 1, 1)), every sample different from the samples of the other entries
ModEntry(m, ndim_, T) ==
    [ndim |-> ndim_,
     rows |-> [tt \in 1..T |->
                  CASE ndim_ = 1 -> 10 * m + tt
                    [] ndim_ = 2 -> <<10 * m + tt>>
                    [] OTHER     -> <<(<<10 * m + tt>>)>>]]

InitSplitMm ==
    /\ op = "split_multi_mod"
    /\ pc = "start"
    /\ X = <<>>
    /\ heap = <<>>
    /\ n_components = 1
    /\ fs = 10
    /\ SplitIdle
    /\ CanoIdle
    /\ CvIdle
    /\ t = [num |-> 1, den |-> 10]
    /\ X_shuffled = <<>>
    /\ out = [status |-> "none"]
    /\ \E n \in 1..MaxMods, T \in 2..MaxModT, f \in {2, 3} :
       \E nd \in [1..n -> 1..3], fi \in 1..f :
          args = [datalist |-> [m \in 1..n |-> ModEntry(m, nd[m], T)], fold |-> f, fold_idx |-> fi]

SplitMultiMod ==
    /\ op = "split_multi_mod"
    /\ pc = "start"
    /\ \E r \in {split_multi_mod(args.datalist, args.fold, args.fold_idx)} :
          /\ out' = IF r.status = "ok"
                    THEN [status |-> "ok", train_list |-> r.train_list, test_list |-> r.test_list]
                    ELSE [status |-> r.status]
          /\ pc' = IF r.status = "ok" THEN "done" ELSE "raised"
    /\ UNCHANGED <<op, args, X, heap, n_components, fs, t, X_shuffled, splitVars, canoVars, cvVars>>

NextSplitMm == SplitMultiMod

SpecSplitMm == InitSplitMm /\ [][NextSplitMm]_vars

(* C16 (as stated): for every datalist split_multi_mod returns a train     *)
(* list and a test list as long as datalist whose entry i is the train     *)
(* remainder, respectively the test slice, of datalist[i] itself; an entry *)
(* of neither 2 nor 3 dimensions never makes another entry's split appear  *)
(* in its place.                                                           *)
SplitMultiModOwnEntries ==
    (op = "split_multi_mod" /\ pc \in {"done", "raised"}) =>
        /\ out.status = "ok"
        /\ Len(out.train_list) = Len(args.datalist)
        /\ Len(out.test_list) = Len(args.datalist)
        /\ \A i \in 1..Len(args.datalist) :
              LET rows == args.datalist[i].rows
                  lt   == Len(rows) \div args.fold
              IN  /\ out.test_list[i].rows =
                        [k \in 1..lt |-> rows[lt * (args.fold_idx - 1) + k]]
                  /\ out.train_list[i].rows =
                        [k \in 1..(Len(rows) - lt) |->
                            IF k <= lt * (args.fold_idx - 1) THEN rows[k] ELSE rows[k + lt]]

----------------------------------------------------------------------------
(* avg_corr_coe_multi_modal called on its own, with its regularization     *)
(* argument.                                                               *)

\* longest signal handed to avg_corr_coe_multi_modal
MaxAvgT == 4

\* T*T times the empirical covariance of columns i and j of X_trans_all
CovT2(cols, i, j) ==
    Len(cols[i]) * SumSeq([tt \in 1..Len(cols[i]) |-> cols[i][tt] * cols[j][tt]])
        - SumSeq(cols[i]) * SumSeq(cols[j])

\* the shrinkage intensities a Ledoit-Wolf fit may settle on, as fractions of 1
Shrinkages == {[num |-> 0, den |-> 1], [num |-> 1, den |-> 2], [num |-> 1, den |-> 1]}

\* LedoitWolf().fit(X_trans_all).covariance_ (line 440): (1-s)*S + s*mu*I with S the
\* empirical covariance and mu = trace(S)/N, as the integer matrix C over one denominator
LedoitWolf(cols, s) ==
    LET N  == Len(cols)
        tr == SumSeq([i \in 1..N |-> CovT2(cols, i, i)])
    IN  [C   |-> [i \in 1..N |-> [j \in 1..N |->
                     (s.den - s.num) * N * CovT2(cols, i, j) + (IF i = j THEN s.num * tr ELSE 0)]],
         den |-> s.den * N * Len(cols[1]) * Len(cols[1])]

\* lines 441-442: cov_diag = np.expand_dims(np.diag(cov_mtx).shape, axis=1) is the
\* 1 x 1 array [[N]], so cov_mtx/np.sqrt(cov_diag)/np.sqrt(cov_diag.T) is cov_mtx/N
corr_mtx_lwcov(cov_mtx) ==
    LET cov_diag == Len(cov_mtx.C)
    IN  [i \in 1..Len(cov_mtx.C) |-> [j \in 1..Len(cov_mtx.C) |->
            [num |-> cov_mtx.C[i][j], den |-> cov_mtx.den * cov_diag]]]

\* lines 422-446 for one component k, given the shrinkage the Ledoit-Wolf fit finds
avg_corr_component(list, Wlist, k, regularization_, s) ==
    LET cols == XTransAll(list, Wlist, k)
        cov  == LedoitWolf(cols, s)
    IN  IF regularization_ = "lwcov"
        THEN [N |-> Len(cols), cov_mtx |-> cov, corr_mtx |-> corr_mtx_lwcov(cov)]
        ELSE [N |-> Len(cols), cov_mtx |-> None, corr_mtx |-> CorrCoef(cols)]

\* the weights tried for an entry of ndim dimensions with two channels or subjects:
\* component 1 weighs them by wa, component 2 the other way round
AvgW(ndim_, wa) ==
    [ndim |-> ndim_,
     w |-> IF ndim_ = 3
           THEN <<[n \in 1..2 |-> <<wa[n], wa[3 - n]>>]>>
           ELSE [d \in 1..2 |-> <<wa[d], wa[3 - d]>>]]

InitAvgCorr ==
    /\ op = "avg_corr_coe_multi_modal"
    /\ pc = "start"
    /\ X = <<>>
    /\ heap = <<>>
    /\ fs = 10
    /\ SplitIdle
    /\ CanoIdle
    /\ CvIdle
    /\ t = [num |-> 1, den |-> 10]
    /\ X_shuffled = <<>>
    /\ out = [status |-> "none"]
    /\ n_components \in 1..2
    /\ \E T \in 3..MaxAvgT, e \in {2, 3}, wa \in [1..2 -> {1, -1, 2}], ws \in {1, -1} :
       \E reg \in Regularizations :
          args = [datalist |-> <<MmEEG(T, e), MmSti(T, 2)>>,
                  Wlist |-> <<AvgW(e, wa), [ndim |-> 2, w |-> <<(<<ws, 2 * ws>>)>>]>>,
                  regularization |-> reg]

AvgCorrCoeMultiModal ==
    /\ op = "avg_corr_coe_multi_modal"
    /\ pc = "start"
    /\ \E s \in (IF args.regularization = "lwcov" THEN [1..n_components -> Shrinkages]
                 ELSE {[k \in 1..n_components |-> [num |-> 0, den |-> 1]]}) :
          out' = [status |-> "ok",
                  avg_corr |-> [k \in 1..n_components |->
                      avg_corr_component(args.datalist, args.Wlist, k, args.regularization, s[k])]]
    /\ pc' = "done"
    /\ UNCHANGED <<op, args, X, heap, n_components, fs, t, X_shuffled, splitVars, canoVars, cvVars>>

NextAvgCorr == AvgCorrCoeMultiModal

SpecAvgCorr == InitAvgCorr /\ [][NextAvgCorr]_vars

\* entry (i, j) of the matrix the identity is subtracted from is
\* cov[i,j]/sqrt(cov[i,i]*cov[j,j]), for the over-one-denominator form of 'lwcov'
EntryIsCorrelation(c, i, j) ==
    /\ i = j => c.corr_mtx[i][j].num = c.corr_mtx[i][j].den
    /\ i # j => \/ c.corr_mtx[i][j].num = 0
                \/ c.cov_mtx.C[i][i] * c.cov_mtx.C[j][j] = c.corr_mtx[i][j].den * c.corr_mtx[i][j].den

(* C17 (as stated): in avg_corr_coe_multi_modal the value of a component   *)
(* is the sum of the off-diagonal entries of the correlation matrix of the *)
(* N projected signals over N(N-1); in both branches, the empirical one    *)
(* and regularization='lwcov', the matrix the identity is subtracted from  *)
(* is a correlation matrix: entry (i, j) is cov[i,j]/sqrt(cov[i,i]*        *)
(* cov[j,j]) and the diagonal is all ones.                                 *)
AvgCorrIsCorrelation ==
    (op = "avg_corr_coe_multi_modal" /\ pc = "done") =>
        \A k \in 1..n_components :
            LET c == out.avg_corr[k]
            IN  /\ c.N = (IF args.datalist[1].ndim = 3 THEN 3 ELSE 2)
                /\ IF args.regularization = "lwcov"
                   THEN \A i, j \in 1..c.N : EntryIsCorrelation(c, i, j)
                   ELSE \A i, j \in 1..c.N :
                           /\ i = j => c.corr_mtx[i][j] = [sgn |-> 1, num |-> 1, den |-> 1]
                           /\ c.corr_mtx[i][j] = PearsonR(XTransAll(args.datalist, args.Wlist, k)[i],
                                                          XTransAll(args.datalist, args.Wlist, k)[j])

----------------------------------------------------------------------------
(* The significance level of cross_val_CCA (459-461) and of                *)
(* cross_val_GCCA_multi_mod (481-483): the lines after the permutation     *)
(* test has returned its trials.                                           *)

\* num_test=1000 of both calls
num_test == 1000

\* the row read from the sorted trials: corr_trials[-10,:]
signifi_row == -10

\* most reorderings of the trials tried one after another
MaxReorders == 2

\* what the permutation test may return: num_test rows of topK correlations in
\* hundredths, -20..20 with every 300th trial an outlier below -25; the values
\* repeat heavily when a is a multiple of 41
NullTrials(topK, a, b) ==
    [i \in 1..num_test |-> [k \in 1..topK |->
        IF i % 300 = 7 THEN -(25 + k + (i \div 300))
        ELSE ((a * i + b * k + 17 * k * (i % 3)) % 41) - 20]]

abs_skipped(col) == col

\* abs(corr_trials), one column
abs(col) == [i \in 1..Len(col) |-> Abs(col[i])]

\* np.sort(col)[p] for a 0-based position p: the value with at most p smaller values
\* before it and more than p values up to it
np_sort_at(col, p) ==
    CHOOSE v \in SeqRange(col) :
        /\ Cardinality({i \in 1..Len(col) : col[i] < v}) <= p
        /\ Cardinality({i \in 1..Len(col) : col[i] <= v}) > p

\* a negative row index counts from the end
row_index(r, n) == IF r < 0 THEN n + r ELSE r

\* lines 460-461: np.sort(abs(corr_trials), axis=0)[-10,:]
significance_level(corr_trials_) ==
    [k \in 1..Len(corr_trials_[1]) |->
        np_sort_at(abs(Col(corr_trials_, k)), row_index(signifi_row, Len(corr_trials_)))]

\* the same trials in another order of production
Reorderings(s) ==
    { [i \in 1..Len(s) |-> s[Len(s) + 1 - i]],
      [i \in 1..Len(s) |-> s[((i + 331) % Len(s)) + 1]],
      [i \in 1..Len(s) |-> IF i % 2 = 1 THEN s[i + 1] ELSE s[i - 1]],
      [i \in 1..Len(s) |-> IF i <= 10 THEN s[Len(s) - 10 + i]
                           ELSE IF i > Len(s) - 10 THEN s[i - (Len(s) - 10)] ELSE s[i]] }

InitSignif ==
    /\ op = "significance_level"
    /\ pc = "trials"
    /\ X = <<>>
    /\ heap = <<>>
    /\ fs = 10
    /\ SplitIdle
    /\ CanoIdle
    /\ CvIdle
    /\ t = [num |-> 1, den |-> 10]
    /\ X_shuffled = <<>>
    /\ out = [status |-> "none"]
    /\ n_components \in 1..2
    /\ \E a \in {1, 7, 82, 205}, b \in {0, 5, 31} :
          args = [corr_trials |-> NullTrials(n_components, a, b),
                  produced |-> NullTrials(n_components, a, b),
                  reorders |-> 0]

\* the permutation test produces the same trials in another order
ReorderTrials ==
    /\ op = "significance_level"
    /\ pc = "trials"
    /\ args.reorders < MaxReorders
    /\ \E s \in Reorderings(args.corr_trials) :
          args' = [args EXCEPT !.corr_trials = s, !.reorders = @ + 1]
    /\ UNCHANGED <<op, pc, out, X, heap, n_components, fs, t, X_shuffled, splitVars, canoVars, cvVars>>

SignificanceLevel ==
    /\ op = "significance_level"
    /\ pc = "trials"
    /\ out' = [status |-> "ok", level |-> significance_level(args.corr_trials)]
    /\ pc' = "printed"
    /\ UNCHANGED <<op, args, X, heap, n_components, fs, t, X_shuffled, splitVars, canoVars, cvVars>>

NextSignif == ReorderTrials \/ SignificanceLevel

SpecSignif == InitSignif /\ [][NextSignif]_vars

\* how many of the trials as first produced have an absolute value of column k
\* above v, and at least v
NullAbove(k, v) ==
    Cardinality({i \in 1..Len(args.produced) : Abs(args.produced[i][k]) > v})

NullAtLeast(k, v) ==
    Cardinality({i \in 1..Len(args.produced) : Abs(args.produced[i][k]) >= v})

(* C18: the significance level printed by cross_val_CCA and                *)
(* cross_val_GCCA_multi_mod comes from exactly 1000 permutation trials     *)
(* and is, for each component column on its own, the value at 0-based      *)
(* position 990 of the ascending sort of the absolute null correlations,   *)
(* the 10th largest of the 1000; the position is fixed, and the value does *)
(* not depend on the order in which the trials were produced.              *)
SignifLevelIsTenthLargest ==
    (op = "significance_level" /\ pc = "printed") =>
        /\ Len(args.corr_trials) = 1000
        /\ row_index(signifi_row, Len(args.corr_trials)) = 990
        /\ Len(out.level) = n_components
        /\ \A k \in 1..n_components :
              /\ NullAbove(k, out.level[k]) <= 9
              /\ NullAtLeast(k, out.level[k]) >= 10

\* two components, the trials reordered twice since they were produced, and the
\* level of the first component strictly inside the range of the null values
SignifLevelWitness ==
    /\ op = "significance_level"
    /\ pc = "printed"
    /\ n_components = 2
    /\ args.reorders = 2
    /\ args.corr_trials # args.produced
    /\ NullAbove(1, out.level[1]) > 0
    /\ NullAtLeast(1, out.level[1]) > 10

=============================================================================
